---- MODULE Spec2Model ----
(***************************************************************************)
(* Model of the backtest engine of cv_strategy (src/backtest.py):          *)
(* BacktestEngine.run_backtest and the per-date rules it calls.            *)
(*                                                                         *)
(* Arithmetic.  The engine computes in floating point; the model computes  *)
(* in exact rationals.  A commission rate is a pair num/den and every      *)
(* amount of money (capital, amount, commission, pnl, portfolio value) is  *)
(* held as an integer number of 1/den currency units, so that              *)
(* amount * commission_rate is exact.  Prices and share counts are         *)
(* integers.  A ratio that the code stores as a float (pnl_pct, return,    *)
(* stop_loss_pct) is a pair <<numerator, denominator>> or a num/den record.*)
(*                                                                         *)
(* Dates are day numbers; day 1 is a Monday.  A price series is a function *)
(* from the dates of the DataFrame's index to the close of that row.       *)
(***************************************************************************)
EXTENDS Integers, Sequences, FiniteSets, TLC

\* ------------------------------------------------------------------ bounds
\* The calendar is the days 1 .. MaxDate.
MaxDate == 3
\* A signal feed has at most MaxSignalDates dates.
MaxSignalDates == 2

Codes == {"A", "B"}
Dates == 1 .. MaxDate
BaseClose == 10
Closes == {10, 11, 12}

\* --------------------------------------------------- constants of the code
LotSize == 100
MaxPositionDiv == 5

\* ---------------------------------------------------------------- inputs
\* signals: date -> list of signalled codes (the 'name' of a signal is only
\* copied into records and is left out).  A date that is not a key has no
\* entry; a key may carry the empty list.
SignalLists == {<<>>, <<"A">>, <<"B", "A">>}

SignalFeeds ==
    UNION {[S -> SignalLists] :
              S \in {T \in SUBSET Dates : Cardinality(T) <= MaxSignalDates}}

\* price_data: code -> series; a series maps the dates of its index to the
\* close.  A code that is not a key has no DataFrame.  A series is flat at
\* BaseClose except on at most one date, where it has another close or no bar.
OffBase(s) == (Dates \ DOMAIN s) \cup {d \in DOMAIN s : s[d] # BaseClose}

Series ==
    {s \in UNION {[S -> Closes] : S \in SUBSET Dates} :
        \A d1, d2 \in OffBase(s) : d1 = d2}

PriceStores == UNION {[S -> Series] : S \in {{}, {"A"}, Codes}}

Rates == {[num |-> 1, den |-> 1000]}

\* Rebalancing is off, or on for the weekday of date 2.
Configs ==
    [initial_capital : {6100},
     stop_loss_pct   : {[num |-> 1, den |-> 10]},
     commission_rate : Rates,
     rebalance_weekly: BOOLEAN,
     rebalance_day   : {1}]

\* start_date / end_date of run_backtest; 0 stands for None.
DateRanges == {<<0, 0>>, <<2, 2>>}

\* The variables from cfg to error are the configuration, the fields and the
\* run_backtest locals of the engine instance that takes the next step.
\* `other` holds the same of a second engine instance that runs on the same
\* signals and price_data, or NoEngine where there is one engine only (where
\* one instance is called twice, it holds the instance as the first call left
\* it).
VARIABLES signals, price_data, cfg, start_date, end_date,
          pc, all_dates, idx, capital, positions, trades_today,
          buy_signals, sig_i, portfolio_value,
          portfolio_history, trade_history, results, error, other

NoEngine == <<>>

inputs == <<signals, price_data, cfg, start_date, end_date>>
vars == <<signals, price_data, cfg, start_date, end_date,
          pc, all_dates, idx, capital, positions, trades_today,
          buy_signals, sig_i, portfolio_value,
          portfolio_history, trade_history, results, error, other>>

\* ---------------------------------------------------------------- helpers
Min(a, b) == IF a <= b THEN a ELSE b

RECURSIVE SumSeq(_)
SumSeq(s) == IF s = <<>> THEN 0 ELSE Head(s) + SumSeq(Tail(s))

RECURSIVE SortedSeq(_)
SortedSeq(S) ==
    IF S = {} THEN <<>>
    ELSE LET m == CHOOSE x \in S : \A y \in S : x <= y
         IN  <<m>> \o SortedSeq(S \ {m})

Den == cfg.commission_rate.den
Num == cfg.commission_rate.num

HasBar(code, d) == code \in DOMAIN price_data /\ d \in DOMAIN price_data[code]
Close(code, d) == price_data[code][d]

Weekday(d) == (d - 1) % 7

CurrentDate == all_dates[idx]

\* ------------------------------------------------- _get_all_trading_dates
\* Variant: the dates of the price store are not collected.
GetAllTradingDatesSignalsOnly ==
    LET all == DOMAIN signals
        after_start == IF start_date # 0 THEN {d \in all : d >= start_date} ELSE all
        in_range == IF end_date # 0 THEN {d \in after_start : d <= end_date}
                    ELSE after_start
    IN  SortedSeq(in_range)

GetAllTradingDates ==
    LET sig_dates == DOMAIN signals
        bar_dates == UNION {DOMAIN price_data[c] : c \in DOMAIN price_data}
        all == sig_dates \cup bar_dates
        after_start == IF start_date # 0 THEN {d \in all : d >= start_date} ELSE all
        in_range == IF end_date # 0 THEN {d \in after_start : d <= end_date}
                    ELSE after_start
    IN  SortedSeq(in_range)

\* ------------------------------------------------- _update_positions_high
\* Variant: the update of step 1 has not happened when step 2 runs.
UpdatePositionsHighSkipped(ps, d) == ps

\* Variant: max_price follows the close, without the comparison.
UpdatePositionsHighToClose(ps, d) ==
    [k \in 1 .. Len(ps) |->
        IF HasBar(ps[k].code, d)
        THEN [ps[k] EXCEPT !.max_price = Close(ps[k].code, d)]
        ELSE ps[k]]

UpdatePositionsHigh(ps, d) ==
    [k \in 1 .. Len(ps) |->
        IF HasBar(ps[k].code, d) /\ Close(ps[k].code, d) > ps[k].max_price
        THEN [ps[k] EXCEPT !.max_price = Close(ps[k].code, d)]
        ELSE ps[k]]

\* Variant: pnl is taken against the cost without the entry commission.
SellTradeNoEntryCommission(pos, d, reason) ==
    LET current_price == Close(pos.code, d)
        sell_value == current_price * pos.shares * Den
        commission == current_price * pos.shares * Num
        net_proceeds == sell_value - commission
        total_cost == pos.avg_price * pos.shares * Den
        pnl == net_proceeds - total_cost
    IN  [date |-> d, code |-> pos.code, action |-> "SELL", reason |-> reason,
         price |-> current_price, shares |-> pos.shares, amount |-> sell_value,
         commission |-> commission, pnl |-> pnl,
         pnl_pct |-> IF total_cost > 0 THEN <<pnl, total_cost>> ELSE <<0, 1>>,
         holding_days |-> d - pos.buy_date]

\* Variant: the realized P&L leaves out the commission of the sale.
SellTradePnlBeforeCommission(pos, d, reason) ==
    LET current_price == Close(pos.code, d)
        sell_value == current_price * pos.shares * Den
        commission == current_price * pos.shares * Num
        cost == pos.avg_price * pos.shares * Den
        buy_commission == pos.avg_price * pos.shares * Num
        total_cost == cost + buy_commission
        pnl == sell_value - total_cost
    IN  [date |-> d, code |-> pos.code, action |-> "SELL", reason |-> reason,
         price |-> current_price, shares |-> pos.shares, amount |-> sell_value,
         commission |-> commission, pnl |-> pnl,
         pnl_pct |-> IF total_cost > 0 THEN <<pnl, total_cost>> ELSE <<0, 1>>,
         holding_days |-> d - pos.buy_date]

\* ----------------------------------------------------------- SELL record
SellTrade(pos, d, reason) ==
    LET current_price == Close(pos.code, d)
        sell_value == current_price * pos.shares * Den
        commission == current_price * pos.shares * Num
        net_proceeds == sell_value - commission
        cost == pos.avg_price * pos.shares * Den
        buy_commission == pos.avg_price * pos.shares * Num
        total_cost == cost + buy_commission
        pnl == net_proceeds - total_cost
    IN  [date |-> d, code |-> pos.code, action |-> "SELL", reason |-> reason,
         price |-> current_price, shares |-> pos.shares, amount |-> sell_value,
         commission |-> commission, pnl |-> pnl,
         pnl_pct |-> IF total_cost > 0 THEN <<pnl, total_cost>> ELSE <<0, 1>>,
         holding_days |-> d - pos.buy_date]

\* Variant: the cash is credited with the gross amount of a SELL.
NetProceedsGross(t) == t.amount

NetProceeds(t) == t.amount - t.commission

MapNet(ts) == [k \in 1 .. Len(ts) |-> NetProceeds(ts[k])]

\* ------------------------------------------------------- _check_stop_loss
\* Variant: the drawdown is taken in percent and compared with the fraction.
StopLossTriggeredPercent(pos, d) ==
    /\ HasBar(pos.code, d)
    /\ (pos.max_price - Close(pos.code, d)) * 100 * cfg.stop_loss_pct.den
          >= cfg.stop_loss_pct.num * pos.max_price

\* Variant: the drawdown is measured from avg_price, not from max_price.
StopLossTriggeredFromCost(pos, d) ==
    /\ HasBar(pos.code, d)
    /\ (pos.avg_price - Close(pos.code, d)) * cfg.stop_loss_pct.den
          >= cfg.stop_loss_pct.num * pos.avg_price

StopLossTriggered(pos, d) ==
    /\ HasBar(pos.code, d)
    /\ (pos.max_price - Close(pos.code, d)) * cfg.stop_loss_pct.den
          >= cfg.stop_loss_pct.num * pos.max_price

\* Variant: a position that is stopped out stays in the ledger.
CheckStopLossKeepsSold(ps, cap, d) ==
    LET hit == SelectSeq(ps, LAMBDA p : StopLossTriggered(p, d))
        trades == [k \in 1 .. Len(hit) |-> SellTrade(hit[k], d, "stop_loss")]
    IN  [positions |-> ps,
         capital |-> cap + SumSeq(MapNet(trades)),
         trades |-> trades]

CheckStopLoss(ps, cap, d) ==
    LET hit == SelectSeq(ps, LAMBDA p : StopLossTriggered(p, d))
        trades == [k \in 1 .. Len(hit) |-> SellTrade(hit[k], d, "stop_loss")]
    IN  [positions |-> SelectSeq(ps, LAMBDA p : ~StopLossTriggered(p, d)),
         capital |-> cap + SumSeq(MapNet(trades)),
         trades |-> trades]

\* ---------------------------------------------------------------- ledger
Held(ps) == {ps[k].code : k \in 1 .. Len(ps)}

DictSet(ps, rec) ==
    IF rec.code \in Held(ps)
    THEN [k \in 1 .. Len(ps) |-> IF ps[k].code = rec.code THEN rec ELSE ps[k]]
    ELSE Append(ps, rec)

\* --------------------------------- _execute_buy_signals, one loop iteration
\* Variant: the share count is rounded up to the next lot of the whole cash.
BuySharesRoundedUp(cap, n_signals, buy_price) ==
    (cap \div (buy_price * LotSize * Den) + 1) * LotSize

\* Variant: the share count is not rounded down to whole lots.
BuySharesNoLot(cap, n_signals, buy_price) ==
    Min(cap \div (n_signals * buy_price * Den),
        cap \div (MaxPositionDiv * buy_price * Den))

\* Variant: equal split of the cash, without the ceiling of 20%.
BuySharesEqualSplit(cap, n_signals, buy_price) ==
    (cap \div (n_signals * buy_price * LotSize * Den)) * LotSize

BuyShares(cap, n_signals, buy_price) ==
    Min(cap \div (n_signals * buy_price * LotSize * Den),
        cap \div (MaxPositionDiv * buy_price * LotSize * Den)) * LotSize

\* Variant: no test `code in positions`.
BuyOneHeldAgain(code, n_signals, ps, cap, d) ==
    LET skip == [positions |-> ps, capital |-> cap, trades |-> <<>>]
    IN  IF ~HasBar(code, d) THEN skip
        ELSE LET buy_price == Close(code, d)
                 shares == BuyShares(cap, n_signals, buy_price)
                 cost == buy_price * shares * Den
                 commission == buy_price * shares * Num
                 total_cost == cost + commission
             IN  IF shares <= 0 THEN skip
                 ELSE IF total_cost > cap THEN skip
                 ELSE [positions |->
                          DictSet(ps, [code |-> code, shares |-> shares,
                                       avg_price |-> buy_price,
                                       max_price |-> buy_price, buy_date |-> d]),
                       capital |-> cap - total_cost,
                       trades |-> <<[date |-> d, code |-> code, action |-> "BUY",
                                     reason |-> "signal", price |-> buy_price,
                                     shares |-> shares, amount |-> cost,
                                     commission |-> commission, pnl |-> 0,
                                     pnl_pct |-> <<0, 1>>, holding_days |-> 0]>>]

\* Variant: whole-cash allocation rounded up, and no test of total_cost
\* against capital.
BuyOneUnchecked(code, n_signals, ps, cap, d) ==
    LET skip == [positions |-> ps, capital |-> cap, trades |-> <<>>]
    IN  IF code \in Held(ps) THEN skip
        ELSE IF ~HasBar(code, d) THEN skip
        ELSE LET buy_price == Close(code, d)
                 shares == BuySharesRoundedUp(cap, n_signals, buy_price)
                 cost == buy_price * shares * Den
                 commission == buy_price * shares * Num
                 total_cost == cost + commission
             IN  IF shares <= 0 THEN skip
                 ELSE [positions |->
                          DictSet(ps, [code |-> code, shares |-> shares,
                                       avg_price |-> buy_price,
                                       max_price |-> buy_price, buy_date |-> d]),
                       capital |-> cap - total_cost,
                       trades |-> <<[date |-> d, code |-> code, action |-> "BUY",
                                     reason |-> "signal", price |-> buy_price,
                                     shares |-> shares, amount |-> cost,
                                     commission |-> commission, pnl |-> 0,
                                     pnl_pct |-> <<0, 1>>, holding_days |-> 0]>>]

\* Variant: no test of total_cost against capital.
BuyOneOnCredit(code, n_signals, ps, cap, d) ==
    LET skip == [positions |-> ps, capital |-> cap, trades |-> <<>>]
    IN  IF code \in Held(ps) THEN skip
        ELSE IF ~HasBar(code, d) THEN skip
        ELSE LET buy_price == Close(code, d)
                 shares == BuyShares(cap, n_signals, buy_price)
                 cost == buy_price * shares * Den
                 commission == buy_price * shares * Num
                 total_cost == cost + commission
             IN  IF shares <= 0 THEN skip
                 ELSE [positions |->
                          DictSet(ps, [code |-> code, shares |-> shares,
                                       avg_price |-> buy_price,
                                       max_price |-> buy_price, buy_date |-> d]),
                       capital |-> cap - total_cost,
                       trades |-> <<[date |-> d, code |-> code, action |-> "BUY",
                                     reason |-> "signal", price |-> buy_price,
                                     shares |-> shares, amount |-> cost,
                                     commission |-> commission, pnl |-> 0,
                                     pnl_pct |-> <<0, 1>>, holding_days |-> 0]>>]

BuyOne(code, n_signals, ps, cap, d) ==
    LET skip == [positions |-> ps, capital |-> cap, trades |-> <<>>]
    IN  IF code \in Held(ps) THEN skip
        ELSE IF ~HasBar(code, d) THEN skip
        ELSE LET buy_price == Close(code, d)
                 shares == BuyShares(cap, n_signals, buy_price)
                 cost == buy_price * shares * Den
                 commission == buy_price * shares * Num
                 total_cost == cost + commission
             IN  IF shares <= 0 THEN skip
                 ELSE IF total_cost > cap THEN skip
                 ELSE [positions |->
                          DictSet(ps, [code |-> code, shares |-> shares,
                                       avg_price |-> buy_price,
                                       max_price |-> buy_price, buy_date |-> d]),
                       capital |-> cap - total_cost,
                       trades |-> <<[date |-> d, code |-> code, action |-> "BUY",
                                     reason |-> "signal", price |-> buy_price,
                                     shares |-> shares, amount |-> cost,
                                     commission |-> commission, pnl |-> 0,
                                     pnl_pct |-> <<0, 1>>, holding_days |-> 0]>>]

\* -------------------------------------------------------- _is_rebalance_day
IsRebalanceDay(d) == Weekday(d) = cfg.rebalance_day

\* ------------------------------- _execute_weekly_rebalance, liquidation part
\* Variant: positions opened on the date itself are kept, not liquidated.
RebalanceSellKeepToday(ps, cap, d) ==
    LET sold == SelectSeq(ps, LAMBDA p : HasBar(p.code, d) /\ p.buy_date < d)
        trades == [k \in 1 .. Len(sold) |-> SellTrade(sold[k], d, "rebalance")]
    IN  [positions |-> SelectSeq(ps, LAMBDA p : p.buy_date = d),
         capital |-> cap + SumSeq(MapNet(trades)),
         trades |-> trades]

\* Variant: positions opened on the date itself leave the ledger without a
\* SELL.
RebalanceSellOlderOnly(ps, cap, d) ==
    LET sold == SelectSeq(ps, LAMBDA p : HasBar(p.code, d) /\ p.buy_date < d)
        trades == [k \in 1 .. Len(sold) |-> SellTrade(sold[k], d, "rebalance")]
    IN  [positions |-> <<>>,
         capital |-> cap + SumSeq(MapNet(trades)),
         trades |-> trades]

\* Variant: a position without a bar on the date stays in the ledger.
RebalanceSellKeepUnpriced(ps, cap, d) ==
    LET sold == SelectSeq(ps, LAMBDA p : HasBar(p.code, d))
        trades == [k \in 1 .. Len(sold) |-> SellTrade(sold[k], d, "rebalance")]
    IN  [positions |-> SelectSeq(ps, LAMBDA p : ~HasBar(p.code, d)),
         capital |-> cap + SumSeq(MapNet(trades)),
         trades |-> trades]

RebalanceSell(ps, cap, d) ==
    LET sold == SelectSeq(ps, LAMBDA p : HasBar(p.code, d))
        trades == [k \in 1 .. Len(sold) |-> SellTrade(sold[k], d, "rebalance")]
    IN  [positions |-> <<>>,
         capital |-> cap + SumSeq(MapNet(trades)),
         trades |-> trades]

\* ------------------------------------------------ _calculate_portfolio_value
MarketValues(ps, d) ==
    [k \in 1 .. Len(ps) |->
        IF HasBar(ps[k].code, d) THEN Close(ps[k].code, d) * ps[k].shares * Den
        ELSE 0]

\* Variant: a position without a bar on the date is valued at its cost.
CalculatePortfolioValueAtCost(ps, cap, d) ==
    cap + SumSeq([k \in 1 .. Len(ps) |->
                     IF HasBar(ps[k].code, d)
                     THEN Close(ps[k].code, d) * ps[k].shares * Den
                     ELSE ps[k].avg_price * ps[k].shares * Den])

\* Variant: positions are valued net of the commission their sale would cost.
CalculatePortfolioValueNet(ps, cap, d) ==
    cap + SumSeq([k \in 1 .. Len(ps) |->
                     IF HasBar(ps[k].code, d)
                     THEN Close(ps[k].code, d) * ps[k].shares * (Den - Num)
                     ELSE 0])

CalculatePortfolioValue(ps, cap, d) == cap + SumSeq(MarketValues(ps, d))

\* ---------------------------------------------------- _record_daily_status
DailyRecord(d, ps, cap, pv) ==
    [date |-> d, cash |-> cap, positions_count |-> Len(ps),
     portfolio_value |-> pv,
     return |-> <<(pv - cfg.initial_capital * Den) * 100,
                  cfg.initial_capital * Den>>]

\* ------------------------------------------------------ _calculate_results
\* A metric that the code computes as a float is a pair <<num, den>> where it
\* is rational, the pair Zero where the code sets the literal 0, and a triple
\* <<name of the formula, operand, operand>> where it is irrational (a power,
\* a square root) or a mean of ratios.
Zero == <<0, 1>>

IsSell(t) == t.action = "SELL"
IsBuy(t) == t.action = "BUY"
IsWin(t) == t.pnl > 0
\* Variant: a break-even SELL is not a loss.
IsLossStrict(t) == t.pnl < 0

IsLoss(t) == t.pnl <= 0

\* a/b < c/d for b, d > 0, by the continued-fraction expansion of both sides
\* (no product is formed, so nothing overflows).
RECURSIVE FracLess(_, _, _, _)
FracLess(a, b, c, d) ==
    IF a \div b # c \div d THEN a \div b < c \div d
    ELSE IF c % d = 0 THEN FALSE
    ELSE IF a % b = 0 THEN TRUE
    ELSE FracLess(d, c % d, b, a % b)

\* p < q for ratios <<num, den>> with den # 0
RatioLess(p, q) ==
    LET np == IF p[2] < 0 THEN <<0 - p[1], 0 - p[2]>> ELSE p
        nq == IF q[2] < 0 THEN <<0 - q[1], 0 - q[2]>> ELSE q
    IN  FracLess(np[1], np[2], nq[1], nq[2])

Value(ph, k) == ph[k].portfolio_value

\* Variant: the peak is the maximum of the whole series, not the running one.
CumMaxWhole(ph, k) ==
    CHOOSE m \in {Value(ph, i) : i \in 1 .. Len(ph)} :
        \A i \in 1 .. Len(ph) : Value(ph, i) <= m

\* portfolio_df['portfolio_value'].cummax() at row k
CumMax(ph, k) ==
    CHOOSE m \in {Value(ph, i) : i \in 1 .. k} :
        \A i \in 1 .. k : Value(ph, i) <= m

\* portfolio_df['drawdown'] at row k
Drawdown(ph, k) == <<(Value(ph, k) - CumMax(ph, k)) * 100, CumMax(ph, k)>>

\* portfolio_df['drawdown'].min()
MaxDrawdown(ph) ==
    LET k == CHOOSE i \in 1 .. Len(ph) :
                 \A j \in 1 .. Len(ph) :
                     ~RatioLess(Drawdown(ph, j), Drawdown(ph, i))
    IN  Drawdown(ph, k)

\* std_daily_return > 0: pct_change has at least two values (its first row is
\* NaN, and the std of fewer than two values is NaN) and they are not all equal.
StdPositive(ph) ==
    \E j, k \in 2 .. Len(ph) :
        RatioLess(<<Value(ph, j), Value(ph, j - 1)>>,
                  <<Value(ph, k), Value(ph, k - 1)>>)

PnlPcts(ts) == [k \in 1 .. Len(ts) |-> ts[k].pnl_pct]
HoldingDays(ts) == [k \in 1 .. Len(ts) |-> ts[k].holding_days]

CalculateResults(ph, th, dates) ==
    LET final_value == Value(ph, Len(ph))
        days == dates[Len(dates)] - dates[1]
        sells == SelectSeq(th, IsSell)
        buys == SelectSeq(th, IsBuy)
        win_trades == SelectSeq(sells, IsWin)
        loss_trades == SelectSeq(sells, IsLoss)
    IN  [initial_capital |-> cfg.initial_capital * Den,
         final_value |-> final_value,
         total_return_pct |-> <<(final_value - cfg.initial_capital * Den) * 100,
                                cfg.initial_capital * Den>>,
         annual_return_pct |->
             IF days > 0
             THEN <<"annualised", <<final_value, cfg.initial_capital * Den>>, days>>
             ELSE Zero,
         max_drawdown_pct |-> MaxDrawdown(ph),
         sharpe_ratio |->
             IF StdPositive(ph)
             THEN <<"sharpe", [k \in 1 .. Len(ph) |-> Value(ph, k)], Len(ph) - 1>>
             ELSE Zero,
         total_trades |-> IF th # <<>> THEN Len(buys) + Len(sells) ELSE 0,
         win_rate_pct |->
             IF sells # <<>> THEN <<Len(win_trades) * 100, Len(sells)>> ELSE Zero,
         avg_win_pct |->
             IF win_trades # <<>>
             THEN <<"mean", PnlPcts(win_trades), Len(win_trades)>> ELSE Zero,
         avg_loss_pct |->
             IF loss_trades # <<>>
             THEN <<"mean", PnlPcts(loss_trades), Len(loss_trades)>> ELSE Zero,
         avg_holding_days |->
             IF sells # <<>> THEN <<SumSeq(HoldingDays(sells)), Len(sells)>>
             ELSE Zero,
         portfolio_history |-> ph,
         trade_history |-> th]

\* =================================================================== state
Init ==
    /\ signals \in SignalFeeds
    /\ price_data \in PriceStores
    /\ cfg \in Configs
    /\ \E r \in DateRanges : start_date = r[1] /\ end_date = r[2]
    /\ pc = "start"
    /\ all_dates = <<>>
    /\ idx = 0
    /\ capital = 0
    /\ positions = <<>>
    /\ trades_today = <<>>
    /\ buy_signals = <<>>
    /\ sig_i = 0
    /\ portfolio_value = 0
    /\ portfolio_history = <<>>
    /\ trade_history = <<>>
    /\ results = <<>>
    /\ error = "none"
    /\ other = NoEngine

\* run_backtest, lines 66-68: with rebalancing on, the banner reads
\* day_names[self.rebalance_day] from a list of 7 names (a negative index
\* counts from the end of the list).
DayNameFails == cfg.rebalance_weekly /\ cfg.rebalance_day \notin -7 .. 6

RunBacktestDayName ==
    /\ pc = "start"
    /\ DayNameFails
    /\ error' = "IndexError"
    /\ pc' = "failed"
    /\ UNCHANGED <<inputs, other, all_dates, idx, capital, positions, trades_today,
                   buy_signals, sig_i, portfolio_value, portfolio_history,
                   trade_history, results>>

\* run_backtest, lines 70-78: initialisation and the trading-date universe.
\* The progress line reads all_dates[0] and all_dates[-1].
RunBacktestBegin ==
    /\ pc = "start"
    /\ ~DayNameFails
    /\ GetAllTradingDates # <<>>
    /\ all_dates' = GetAllTradingDates
    /\ capital' = cfg.initial_capital * Den
    /\ positions' = <<>>
    /\ portfolio_value' = cfg.initial_capital * Den
    /\ idx' = 1
    /\ pc' = "update_high"
    /\ UNCHANGED <<inputs, other, trades_today, buy_signals, sig_i,
                   portfolio_history, trade_history, results, error>>

RunBacktestEmpty ==
    /\ pc = "start"
    /\ ~DayNameFails
    /\ GetAllTradingDates = <<>>
    /\ all_dates' = <<>>
    /\ capital' = cfg.initial_capital * Den
    /\ portfolio_value' = cfg.initial_capital * Den
    /\ error' = "IndexError"
    /\ pc' = "failed"
    /\ UNCHANGED <<inputs, other, idx, positions, trades_today, buy_signals, sig_i,
                   portfolio_history, trade_history, results>>

\* step 1
UpdateHighStep ==
    /\ pc = "update_high"
    /\ positions' = UpdatePositionsHigh(positions, CurrentDate)
    /\ pc' = "stop_loss"
    /\ UNCHANGED <<inputs, other, all_dates, idx, capital, trades_today, buy_signals,
                   sig_i, portfolio_value, portfolio_history, trade_history,
                   results, error>>

\* step 2
StopLossStep ==
    /\ pc = "stop_loss"
    /\ LET r == CheckStopLoss(positions, capital, CurrentDate)
       IN  /\ positions' = r.positions
           /\ capital' = r.capital
           /\ trades_today' = r.trades
    /\ pc' = "signal"
    /\ UNCHANGED <<inputs, other, all_dates, idx, buy_signals, sig_i, portfolio_value,
                   portfolio_history, trade_history, results, error>>

\* Variant: on a date without signals step 3 takes up the list of the last
\* date before it that has one.
SignalStepCarriedOver ==
    /\ pc = "signal"
    /\ LET earlier == {d \in DOMAIN signals : d <= CurrentDate}
       IN  IF earlier # {}
           THEN /\ buy_signals' =
                       signals[CHOOSE d \in earlier : \A e \in earlier : e <= d]
                /\ sig_i' = 1
                /\ pc' = "buy_loop"
           ELSE /\ pc' = "rebalance"
                /\ UNCHANGED <<buy_signals, sig_i>>
    /\ UNCHANGED <<inputs, other, all_dates, idx, capital, positions, trades_today,
                   portfolio_value, portfolio_history, trade_history,
                   results, error>>

\* step 3, the test `date_str in signals`
SignalStep ==
    /\ pc = "signal"
    /\ IF CurrentDate \in DOMAIN signals
       THEN /\ buy_signals' = signals[CurrentDate]
            /\ sig_i' = 1
            /\ pc' = "buy_loop"
       ELSE /\ pc' = "rebalance"
            /\ UNCHANGED <<buy_signals, sig_i>>
    /\ UNCHANGED <<inputs, other, all_dates, idx, capital, positions, trades_today,
                   portfolio_value, portfolio_history, trade_history,
                   results, error>>

\* Variant: a candidate without a bar ends the loop (break, not continue).
BuyNextBreak ==
    /\ pc \in {"buy_loop", "rebuy_loop"}
    /\ sig_i <= Len(buy_signals)
    /\ LET r == BuyOne(buy_signals[sig_i], Len(buy_signals), positions, capital,
                       CurrentDate)
       IN  /\ positions' = r.positions
           /\ capital' = r.capital
           /\ trades_today' = trades_today \o r.trades
    /\ sig_i' = IF HasBar(buy_signals[sig_i], CurrentDate) THEN sig_i + 1
                ELSE Len(buy_signals) + 1
    /\ UNCHANGED <<inputs, other, pc, all_dates, idx, buy_signals, portfolio_value,
                   portfolio_history, trade_history, results, error>>

\* Variant: the loop takes the candidates from the end of the list.
BuyNextReversed ==
    /\ pc \in {"buy_loop", "rebuy_loop"}
    /\ sig_i <= Len(buy_signals)
    /\ LET r == BuyOne(buy_signals[Len(buy_signals) + 1 - sig_i],
                       Len(buy_signals), positions, capital, CurrentDate)
       IN  /\ positions' = r.positions
           /\ capital' = r.capital
           /\ trades_today' = trades_today \o r.trades
    /\ sig_i' = sig_i + 1
    /\ UNCHANGED <<inputs, other, pc, all_dates, idx, buy_signals, portfolio_value,
                   portfolio_history, trade_history, results, error>>

\* one iteration of the loop of _execute_buy_signals
BuyNext ==
    /\ pc \in {"buy_loop", "rebuy_loop"}
    /\ sig_i <= Len(buy_signals)
    /\ LET r == BuyOne(buy_signals[sig_i], Len(buy_signals), positions, capital,
                       CurrentDate)
       IN  /\ positions' = r.positions
           /\ capital' = r.capital
           /\ trades_today' = trades_today \o r.trades
    /\ sig_i' = sig_i + 1
    /\ UNCHANGED <<inputs, other, pc, all_dates, idx, buy_signals, portfolio_value,
                   portfolio_history, trade_history, results, error>>

\* Variant: the stop-loss rule runs once more after the entries of step 3.
BuyReturnThenStopLoss ==
    /\ pc \in {"buy_loop", "rebuy_loop"}
    /\ sig_i > Len(buy_signals)
    /\ pc' = IF pc = "buy_loop" THEN "stop_loss" ELSE "valuation"
    /\ UNCHANGED <<inputs, other, all_dates, idx, capital, positions, trades_today,
                   buy_signals, sig_i, portfolio_value, portfolio_history,
                   trade_history, results, error>>

\* return of _execute_buy_signals to its caller
BuyReturn ==
    /\ pc \in {"buy_loop", "rebuy_loop"}
    /\ sig_i > Len(buy_signals)
    /\ pc' = IF pc = "buy_loop" THEN "rebalance" ELSE "valuation"
    /\ UNCHANGED <<inputs, other, all_dates, idx, capital, positions, trades_today,
                   buy_signals, sig_i, portfolio_value, portfolio_history,
                   trade_history, results, error>>

\* Variant: step 4 does not test self.rebalance_weekly.
RebalanceStepUngated ==
    /\ pc = "rebalance"
    /\ IF IsRebalanceDay(CurrentDate) /\ positions # <<>>
       THEN LET r == RebalanceSell(positions, capital, CurrentDate)
                today_signals == IF CurrentDate \in DOMAIN signals
                                 THEN signals[CurrentDate] ELSE <<>>
            IN  /\ positions' = r.positions
                /\ capital' = r.capital
                /\ trades_today' = trades_today \o r.trades
                /\ IF today_signals # <<>>
                   THEN /\ buy_signals' = today_signals
                        /\ sig_i' = 1
                        /\ pc' = "rebuy_loop"
                   ELSE /\ pc' = "valuation"
                        /\ UNCHANGED <<buy_signals, sig_i>>
       ELSE /\ pc' = "valuation"
            /\ UNCHANGED <<positions, capital, trades_today, buy_signals, sig_i>>
    /\ UNCHANGED <<inputs, other, all_dates, idx, portfolio_value, portfolio_history,
                   trade_history, results, error>>

\* step 4
RebalanceStep ==
    /\ pc = "rebalance"
    /\ IF cfg.rebalance_weekly /\ IsRebalanceDay(CurrentDate) /\ positions # <<>>
       THEN LET r == RebalanceSell(positions, capital, CurrentDate)
                today_signals == IF CurrentDate \in DOMAIN signals
                                 THEN signals[CurrentDate] ELSE <<>>
            IN  /\ positions' = r.positions
                /\ capital' = r.capital
                /\ trades_today' = trades_today \o r.trades
                /\ IF today_signals # <<>>
                   THEN /\ buy_signals' = today_signals
                        /\ sig_i' = 1
                        /\ pc' = "rebuy_loop"
                   ELSE /\ pc' = "valuation"
                        /\ UNCHANGED <<buy_signals, sig_i>>
       ELSE /\ pc' = "valuation"
            /\ UNCHANGED <<positions, capital, trades_today, buy_signals, sig_i>>
    /\ UNCHANGED <<inputs, other, all_dates, idx, portfolio_value, portfolio_history,
                   trade_history, results, error>>

\* step 5
ValuationStep ==
    /\ pc = "valuation"
    /\ portfolio_value' = CalculatePortfolioValue(positions, capital, CurrentDate)
    /\ pc' = "record"
    /\ UNCHANGED <<inputs, other, all_dates, idx, capital, positions, trades_today,
                   buy_signals, sig_i, portfolio_history, trade_history,
                   results, error>>

\* step 6: portfolio_value / self.initial_capital with initial_capital = 0
\* (no snapshot is appended, the trades of the day are not recorded)
RecordZeroDivision ==
    /\ pc = "record"
    /\ cfg.initial_capital = 0
    /\ error' = "ZeroDivisionError"
    /\ pc' = "failed"
    /\ UNCHANGED <<inputs, other, all_dates, idx, capital, positions, trades_today,
                   buy_signals, sig_i, portfolio_value, portfolio_history,
                   trade_history, results>>

\* Variant: the loop ends one date early.
RecordStepEarlyExit ==
    /\ pc = "record"
    /\ cfg.initial_capital # 0
    /\ portfolio_history' =
          Append(portfolio_history,
                 DailyRecord(CurrentDate, positions, capital, portfolio_value))
    /\ trade_history' = trade_history \o trades_today
    /\ IF idx + 1 < Len(all_dates)
       THEN /\ idx' = idx + 1
            /\ pc' = "update_high"
       ELSE /\ pc' = "calc"
            /\ UNCHANGED idx
    /\ UNCHANGED <<inputs, other, all_dates, capital, positions, trades_today,
                   buy_signals, sig_i, portfolio_value, results, error>>

\* step 6 and the loop control of run_backtest
RecordStep ==
    /\ pc = "record"
    /\ cfg.initial_capital # 0
    /\ portfolio_history' =
          Append(portfolio_history,
                 DailyRecord(CurrentDate, positions, capital, portfolio_value))
    /\ trade_history' = trade_history \o trades_today
    /\ IF idx < Len(all_dates)
       THEN /\ idx' = idx + 1
            /\ pc' = "update_high"
       ELSE /\ pc' = "calc"
            /\ UNCHANGED idx
    /\ UNCHANGED <<inputs, other, all_dates, capital, positions, trades_today,
                   buy_signals, sig_i, portfolio_value, results, error>>

\* Variant: the call consumes the trade list it has counted.
CalculateResultsStepDraining ==
    /\ pc = "calc"
    /\ results' = IF portfolio_history = <<>> THEN results
                  ELSE CalculateResults(portfolio_history, trade_history,
                                        all_dates)
    /\ trade_history' = <<>>
    /\ pc' = "done"
    /\ UNCHANGED <<inputs, other, all_dates, idx, capital, positions,
                   trades_today, buy_signals, sig_i, portfolio_value,
                   portfolio_history, error>>

CalculateResultsStep ==
    /\ pc = "calc"
    /\ results' = IF portfolio_history = <<>> THEN results
                  ELSE CalculateResults(portfolio_history, trade_history,
                                        all_dates)
    /\ pc' = "done"
    /\ UNCHANGED <<inputs, other, all_dates, idx, capital, positions, trades_today,
                   buy_signals, sig_i, portfolio_value, portfolio_history,
                   trade_history, error>>

Next ==
    \/ RunBacktestBegin
    \/ RunBacktestEmpty
    \/ UpdateHighStep
    \/ StopLossStep
    \/ SignalStep
    \/ BuyNext
    \/ BuyReturn
    \/ RebalanceStep
    \/ ValuationStep
    \/ RecordStep
    \/ CalculateResultsStep

Spec == Init /\ [][Next]_vars

\* ------------------------------------------- runs with any configuration
\* __init__ stores its arguments as they are.  The configurations here differ
\* from a valid one in one argument: initial_capital <= 0, stop_loss_pct
\* outside (0, 1), commission_rate < 0, or rebalance_day outside 0 .. 6.
ValidConfig(c) ==
    /\ c.initial_capital > 0
    /\ 0 < c.stop_loss_pct.num /\ c.stop_loss_pct.num < c.stop_loss_pct.den
    /\ c.commission_rate.num >= 0
    /\ c.rebalance_day \in 0 .. 6

BaseConfig ==
    [initial_capital |-> 6100, stop_loss_pct |-> [num |-> 1, den |-> 10],
     commission_rate |-> [num |-> 1, den |-> 1000],
     rebalance_weekly |-> TRUE, rebalance_day |-> 1]

InvalidConfigs ==
    {[BaseConfig EXCEPT !.initial_capital = v] : v \in {0, -6100}}
    \cup {[BaseConfig EXCEPT !.stop_loss_pct.num = v] : v \in {0, 10, -1}}
    \cup {[BaseConfig EXCEPT !.commission_rate.num = -1]}
    \cup {[BaseConfig EXCEPT !.rebalance_day = v, !.rebalance_weekly = w] :
              v \in {7, -1}, w \in BOOLEAN}

\* Price stores in which only the series of A is off the flat base.
ConfigStores ==
    {p \in PriceStores : \A c \in DOMAIN p : c # "A" => OffBase(p[c]) = {}}

ConfigInit ==
    /\ signals \in SignalFeeds
    /\ price_data \in ConfigStores
    /\ cfg \in InvalidConfigs
    /\ start_date = 0 /\ end_date = 0
    /\ pc = "start"
    /\ all_dates = <<>>
    /\ idx = 0
    /\ capital = 0
    /\ positions = <<>>
    /\ trades_today = <<>>
    /\ buy_signals = <<>>
    /\ sig_i = 0
    /\ portfolio_value = 0
    /\ portfolio_history = <<>>
    /\ trade_history = <<>>
    /\ results = <<>>
    /\ error = "none"
    /\ other = NoEngine

ConfigNext ==
    \/ Next
    \/ RunBacktestDayName
    \/ RecordZeroDivision

ConfigSpec == ConfigInit /\ [][ConfigNext]_vars

\* ---------------------------------------- two Mondays, rebalancing on Monday
\* Day 1 and day 8 are Mondays; each carries one signal.  Both instruments
\* have a bar on both Mondays, and perhaps on the Thursday between; closes are
\* 10 or 11, so no drawdown reaches the threshold of 10%.
FirstMonday == 1
SecondMonday == FirstMonday + 7

WeeklySeries ==
    UNION {[S -> {10, 11}] :
              S \in {{FirstMonday, SecondMonday},
                     {FirstMonday, 4, SecondMonday}}}

WeeklyInit ==
    /\ signals \in [{FirstMonday, SecondMonday} -> {<<"A">>, <<"B">>}]
    /\ price_data \in [Codes -> WeeklySeries]
    /\ cfg = [BaseConfig EXCEPT !.initial_capital = 20000, !.rebalance_day = 0]
    /\ start_date = 0 /\ end_date = 0
    /\ pc = "start"
    /\ all_dates = <<>>
    /\ idx = 0
    /\ capital = 0
    /\ positions = <<>>
    /\ trades_today = <<>>
    /\ buy_signals = <<>>
    /\ sig_i = 0
    /\ portfolio_value = 0
    /\ portfolio_history = <<>>
    /\ trade_history = <<>>
    /\ results = <<>>
    /\ error = "none"
    /\ other = NoEngine

\* The universe is never empty here.
WeeklyNext ==
    \/ RunBacktestBegin
    \/ UpdateHighStep
    \/ StopLossStep
    \/ SignalStep
    \/ BuyNext
    \/ BuyReturn
    \/ RebalanceStep
    \/ ValuationStep
    \/ RecordStep
    \/ CalculateResultsStep

WeeklySpec == WeeklyInit /\ [][WeeklyNext]_vars

\* ------------------------------------------ the metrics calculator by itself
\* _calculate_results(all_dates) called on an engine whose histories hold any
\* snapshots and trades, and called once more on the same histories.
MaxHist == 3

RECURSIVE SeqsUpTo(_, _)
SeqsUpTo(S, n) ==
    IF n = 0 THEN {<<>>}
    ELSE SeqsUpTo(S, n - 1)
         \cup {Append(q, x) : q \in {r \in SeqsUpTo(S, n - 1) : Len(r) = n - 1},
                              x \in S}

\* initial_capital 2, no commission: money is in whole units.
MetricsConfig ==
    [BaseConfig EXCEPT !.initial_capital = 2,
                       !.commission_rate = [num |-> 0, den |-> 1]]

MetricValues == {1, 2, 3}

\* One BUY, and SELLs with a gain, with a loss and at break-even.
MetricTrades ==
    {[date |-> 1, code |-> "A", action |-> "BUY", reason |-> "signal",
      price |-> 1, shares |-> 100, amount |-> 100, commission |-> 0,
      pnl |-> 0, pnl_pct |-> <<0, 1>>, holding_days |-> 0],
     [date |-> 3, code |-> "A", action |-> "SELL", reason |-> "stop_loss",
      price |-> 2, shares |-> 100, amount |-> 200, commission |-> 0,
      pnl |-> 100, pnl_pct |-> <<100, 100>>, holding_days |-> 2],
     [date |-> 2, code |-> "A", action |-> "SELL", reason |-> "stop_loss",
      price |-> 1, shares |-> 100, amount |-> 100, commission |-> 0,
      pnl |-> -100, pnl_pct |-> <<-100, 200>>, holding_days |-> 1],
     [date |-> 1, code |-> "A", action |-> "SELL", reason |-> "rebalance",
      price |-> 1, shares |-> 100, amount |-> 100, commission |-> 0,
      pnl |-> 0, pnl_pct |-> <<0, 100>>, holding_days |-> 0]}

MetricsInit ==
    /\ signals \in {f \in SignalFeeds : DOMAIN f = {}}
    /\ price_data \in {p \in PriceStores : DOMAIN p = {}}
    /\ cfg = MetricsConfig
    /\ start_date = 0 /\ end_date = 0
    /\ pc = "calc"
    /\ \E vs \in SeqsUpTo(MetricValues, MaxHist) :
           /\ portfolio_history =
                  [k \in 1 .. Len(vs) |-> DailyRecord(k, <<>>, vs[k], vs[k])]
           /\ all_dates = [k \in 1 .. Len(vs) |-> k]
           /\ idx = Len(vs)
           /\ capital = IF vs = <<>> THEN 0 ELSE vs[Len(vs)]
           /\ portfolio_value = IF vs = <<>> THEN 0 ELSE vs[Len(vs)]
    /\ trade_history \in SeqsUpTo(MetricTrades, MaxHist)
    /\ positions = <<>>
    /\ trades_today = <<>>
    /\ buy_signals = <<>>
    /\ sig_i = 0
    /\ results = <<>>
    /\ error = "none"
    /\ other = NoEngine

\* a second call of _calculate_results(all_dates) on the same engine
CalculateResultsAgain ==
    /\ pc = "done"
    /\ results' = IF portfolio_history = <<>> THEN results
                  ELSE CalculateResults(portfolio_history, trade_history,
                                        all_dates)
    /\ pc' = "done_again"
    /\ UNCHANGED <<inputs, other, all_dates, idx, capital, positions,
                   trades_today, buy_signals, sig_i, portfolio_value,
                   portfolio_history, trade_history, error>>

MetricsNext ==
    \/ CalculateResultsStep
    \/ CalculateResultsAgain

MetricsSpec == MetricsInit /\ [][MetricsNext]_vars

\* ------------------------------------- two engine instances on shared inputs
\* Each instance has its own configuration, fields (lines 40-43) and
\* run_backtest locals (lines 71-73); signals and price_data are shared.
EngineState ==
    [cfg |-> cfg, pc |-> pc, all_dates |-> all_dates, idx |-> idx,
     capital |-> capital, positions |-> positions,
     trades_today |-> trades_today, buy_signals |-> buy_signals,
     sig_i |-> sig_i, portfolio_value |-> portfolio_value,
     portfolio_history |-> portfolio_history, trade_history |-> trade_history,
     results |-> results, error |-> error]

\* Variant: portfolio_history and trade_history are one pair of lists that
\* both instances append to (class attributes, not instance attributes).
SwitchSharedHistory ==
    /\ other # NoEngine
    /\ other' = EngineState
    /\ cfg' = other.cfg
    /\ pc' = other.pc
    /\ all_dates' = other.all_dates
    /\ idx' = other.idx
    /\ capital' = other.capital
    /\ positions' = other.positions
    /\ trades_today' = other.trades_today
    /\ buy_signals' = other.buy_signals
    /\ sig_i' = other.sig_i
    /\ portfolio_value' = other.portfolio_value
    /\ results' = other.results
    /\ error' = other.error
    /\ UNCHANGED <<signals, price_data, start_date, end_date,
                   portfolio_history, trade_history>>

\* The next step is taken by the other instance.
Switch ==
    /\ other # NoEngine
    /\ other' = EngineState
    /\ cfg' = other.cfg
    /\ pc' = other.pc
    /\ all_dates' = other.all_dates
    /\ idx' = other.idx
    /\ capital' = other.capital
    /\ positions' = other.positions
    /\ trades_today' = other.trades_today
    /\ buy_signals' = other.buy_signals
    /\ sig_i' = other.sig_i
    /\ portfolio_value' = other.portfolio_value
    /\ portfolio_history' = other.portfolio_history
    /\ trade_history' = other.trade_history
    /\ results' = other.results
    /\ error' = other.error
    /\ UNCHANGED <<signals, price_data, start_date, end_date>>

\* Parameter sets of the two instances: rebalancing off or on.
PairConfigs == {[BaseConfig EXCEPT !.rebalance_weekly = w] : w \in BOOLEAN}

\* Feeds with signals on the first date only.
PairFeeds == {f \in SignalFeeds : DOMAIN f = {1}}

Fresh(c) ==
    [cfg |-> c, pc |-> "start", all_dates |-> <<>>, idx |-> 0, capital |-> 0,
     positions |-> <<>>, trades_today |-> <<>>, buy_signals |-> <<>>,
     sig_i |-> 0, portfolio_value |-> 0, portfolio_history |-> <<>>,
     trade_history |-> <<>>, results |-> <<>>, error |-> "none"]

PairInit ==
    /\ signals \in PairFeeds
    /\ price_data \in ConfigStores
    /\ cfg \in PairConfigs
    /\ start_date = 0 /\ end_date = 0
    /\ pc = "start"
    /\ all_dates = <<>>
    /\ idx = 0
    /\ capital = 0
    /\ positions = <<>>
    /\ trades_today = <<>>
    /\ buy_signals = <<>>
    /\ sig_i = 0
    /\ portfolio_value = 0
    /\ portfolio_history = <<>>
    /\ trade_history = <<>>
    /\ results = <<>>
    /\ error = "none"
    /\ \E c \in PairConfigs : other = Fresh(c)

\* The universe holds date 1, so it is never empty.
PairNext ==
    \/ WeeklyNext
    \/ Switch

PairSpec == PairInit /\ [][PairNext]_vars

\* ------------------------- two instances that differ in rebalance_day only
\* Both instances have rebalancing off, or both have it on; one rebalances on
\* Monday (date 1), the other on Tuesday (date 2).
GateConfigs ==
    {[BaseConfig EXCEPT !.rebalance_weekly = w, !.rebalance_day = v] :
        w \in BOOLEAN, v \in {0, 1}}

GateInit ==
    /\ signals \in PairFeeds
    /\ price_data \in ConfigStores
    /\ cfg \in GateConfigs
    /\ start_date = 0 /\ end_date = 0
    /\ pc = "start"
    /\ all_dates = <<>>
    /\ idx = 0
    /\ capital = 0
    /\ positions = <<>>
    /\ trades_today = <<>>
    /\ buy_signals = <<>>
    /\ sig_i = 0
    /\ portfolio_value = 0
    /\ portfolio_history = <<>>
    /\ trade_history = <<>>
    /\ results = <<>>
    /\ error = "none"
    /\ \E c \in GateConfigs :
          /\ c.rebalance_weekly = cfg.rebalance_weekly
          /\ c.rebalance_day # cfg.rebalance_day
          /\ other = Fresh(c)

GateSpec == GateInit /\ [][PairNext]_vars

\* ------------------------------------------------ a commission of five times
\* With commission_rate = 5 one lot at the close of 10 costs 6000 in all and
\* is paid for by the initial capital of 6100; one lot at 11 or 12 passes the
\* 20% ceiling on its amount but costs more than the cash in all.
ScarceInit ==
    /\ signals \in SignalFeeds
    /\ price_data \in PriceStores
    /\ cfg \in {[BaseConfig EXCEPT !.commission_rate = [num |-> 5, den |-> 1],
                                   !.rebalance_weekly = w] : w \in BOOLEAN}
    /\ start_date = 0 /\ end_date = 0
    /\ pc = "start"
    /\ all_dates = <<>>
    /\ idx = 0
    /\ capital = 0
    /\ positions = <<>>
    /\ trades_today = <<>>
    /\ buy_signals = <<>>
    /\ sig_i = 0
    /\ portfolio_value = 0
    /\ portfolio_history = <<>>
    /\ trade_history = <<>>
    /\ results = <<>>
    /\ error = "none"
    /\ other = NoEngine

ScarceSpec == ScarceInit /\ [][Next]_vars

\* ------------------------------------------- one list in both of its orders
\* Date 1 signals A and B, in either order; the capital pays for one lot of
\* each at the close of 10 but for one lot only at 12 (6100), or for two lots
\* of the first and one of the second at 10 (10100).  Rebalancing is off, or
\* on for the weekday of date 1.
OrderLists == {<<"A", "B">>, <<"B", "A">>}

OrderInit ==
    /\ signals \in [{1} -> OrderLists]
    /\ price_data \in [Codes -> Series]
    /\ cfg \in {[BaseConfig EXCEPT !.initial_capital = v, !.rebalance_weekly = w,
                                   !.rebalance_day = 0] :
                   v \in {6100, 10100}, w \in BOOLEAN}
    /\ start_date = 0 /\ end_date = 0
    /\ pc = "start"
    /\ all_dates = <<>>
    /\ idx = 0
    /\ capital = 0
    /\ positions = <<>>
    /\ trades_today = <<>>
    /\ buy_signals = <<>>
    /\ sig_i = 0
    /\ portfolio_value = 0
    /\ portfolio_history = <<>>
    /\ trade_history = <<>>
    /\ results = <<>>
    /\ error = "none"
    /\ other = NoEngine

OrderSpec == OrderInit /\ [][WeeklyNext]_vars

\* ------------------------------------------------------------- flat prices
\* Every instrument has a bar on every date of the calendar, at one close.
\* The capital is 6100 or 1,000,000, the commission rate 0 or 0.1%.
FlatStores == {[c \in Codes |-> [d \in Dates |-> p[c]]] : p \in [Codes -> Closes]}

FlatConfigs ==
    {[BaseConfig EXCEPT !.initial_capital = v, !.commission_rate = r,
                        !.stop_loss_pct = [num |-> 4, den |-> 100],
                        !.rebalance_weekly = w] :
        v \in {6100, 1000000},
        r \in {[num |-> 0, den |-> 1], [num |-> 1, den |-> 1000]},
        w \in BOOLEAN}

FlatInit ==
    /\ signals \in SignalFeeds
    /\ price_data \in FlatStores
    /\ cfg \in FlatConfigs
    /\ start_date = 0 /\ end_date = 0
    /\ pc = "start"
    /\ all_dates = <<>>
    /\ idx = 0
    /\ capital = 0
    /\ positions = <<>>
    /\ trades_today = <<>>
    /\ buy_signals = <<>>
    /\ sig_i = 0
    /\ portfolio_value = 0
    /\ portfolio_history = <<>>
    /\ trade_history = <<>>
    /\ results = <<>>
    /\ error = "none"
    /\ other = NoEngine

FlatSpec == FlatInit /\ [][WeeklyNext]_vars

\* ----------------------------------------- two calls on one engine instance
\* run_backtest is called, returns, and is called once more on the same
\* instance with the same arguments.  The second call assigns the locals of
\* lines 71-73 anew; self.portfolio_history, self.trade_history and
\* self.results are assigned in __init__ only (lines 41-43).  Here `other`
\* holds the instance as it was when the first call returned.
RunBacktestAgain ==
    /\ pc = "done"
    /\ other = NoEngine
    /\ other' = EngineState
    /\ pc' = "start"
    /\ UNCHANGED <<inputs, all_dates, idx, capital, positions, trades_today,
                   buy_signals, sig_i, portfolio_value, portfolio_history,
                   trade_history, results, error>>

RerunInit ==
    /\ signals \in PairFeeds
    /\ price_data \in ConfigStores
    /\ cfg \in PairConfigs
    /\ start_date = 0 /\ end_date = 0
    /\ pc = "start"
    /\ all_dates = <<>>
    /\ idx = 0
    /\ capital = 0
    /\ positions = <<>>
    /\ trades_today = <<>>
    /\ buy_signals = <<>>
    /\ sig_i = 0
    /\ portfolio_value = 0
    /\ portfolio_history = <<>>
    /\ trade_history = <<>>
    /\ results = <<>>
    /\ error = "none"
    /\ other = NoEngine

RerunNext ==
    \/ WeeklyNext
    \/ RunBacktestAgain

RerunSpec == RerunInit /\ [][RerunNext]_vars

\* --------------------------------------------- signal lists of six candidates
\* Six instruments with flat closes on two dates; the first date may open a
\* position in A, the second date signals three or six instruments.
AllocCodes == {"A", "B", "C", "D", "E", "F"}

AllocLists ==
    {<<"A", "B", "C", "D", "E", "F">>, <<"B", "C", "D", "E", "F", "A">>,
     <<"A", "B", "C">>}

AllocInit ==
    /\ signals \in {f \in [{1, 2} -> AllocLists \cup {<<>>, <<"A">>}] :
                       f[1] \in {<<>>, <<"A">>} /\ f[2] \in AllocLists}
    /\ price_data = [c \in AllocCodes |-> [d \in {1, 2} |-> BaseClose]]
    /\ cfg \in {[BaseConfig EXCEPT !.rebalance_weekly = FALSE,
                                   !.initial_capital = v] : v \in {6100, 12100}}
    /\ start_date = 0 /\ end_date = 0
    /\ pc = "start"
    /\ all_dates = <<>>
    /\ idx = 0
    /\ capital = 0
    /\ positions = <<>>
    /\ trades_today = <<>>
    /\ buy_signals = <<>>
    /\ sig_i = 0
    /\ portfolio_value = 0
    /\ portfolio_history = <<>>
    /\ trade_history = <<>>
    /\ results = <<>>
    /\ error = "none"
    /\ other = NoEngine

AllocSpec == AllocInit /\ [][WeeklyNext]_vars

\* ================================================================= claims
\* Positions of run_backtest inside the loop body, after step 1.
AfterUpdate == {"stop_loss", "signal", "buy_loop", "rebalance", "rebuy_loop",
                "valuation", "record"}

\* The trades a step appends (step 2 starts the day's list afresh).
NewTrades ==
    IF pc = "stop_loss" THEN trades_today'
    ELSE IF Len(trades_today') > Len(trades_today)
         THEN SubSeq(trades_today', Len(trades_today) + 1, Len(trades_today'))
         ELSE <<>>

AllOf(ts, P(_)) == \A k \in 1 .. Len(ts) : P(ts[k])

IsStopLossSell(t) == t.action = "SELL" /\ t.reason = "stop_loss"
IsRebalanceSell(t) == t.action = "SELL" /\ t.reason = "rebalance"

\* Stop-loss SELLs, then BUYs, then rebalance SELLs, then BUYs.
DayOrderOK(ts) ==
    \A i, j \in 1 .. Len(ts) :
        i < j =>
            /\ ~(IsStopLossSell(ts[j]) /\ ~IsStopLossSell(ts[i]))
            /\ ~(IsRebalanceSell(ts[i]) /\ IsRebalanceSell(ts[j])
                 /\ \E k \in i + 1 .. j - 1 : IsBuy(ts[k]))
            /\ ~(IsRebalanceSell(ts[i]) /\ IsStopLossSell(ts[j]))

TradesOfDate(ts, d) == SelectSeq(ts, LAMBDA t : t.date = d)

\* ---------------------------------------------------------------------- C1
C1_HighRaisedBeforeStopLoss ==
    pc = "stop_loss" =>
        \A k \in 1 .. Len(positions) :
            HasBar(positions[k].code, CurrentDate) =>
                positions[k].max_price >= Close(positions[k].code, CurrentDate)

C1_TradesOrdered ==
    /\ pc \in AfterUpdate \ {"stop_loss"} =>
          /\ DayOrderOK(trades_today)
          /\ AllOf(trades_today, LAMBDA t : t.date = CurrentDate)
    /\ \A i, j \in 1 .. Len(trade_history) :
          i < j => trade_history[i].date <= trade_history[j].date
    /\ \A d \in Dates : DayOrderOK(TradesOfDate(trade_history, d))

C1_StepOrder ==
    /\ pc = "update_high" =>
          /\ pc' = "stop_loss"
          /\ UNCHANGED <<capital, trades_today>>
    /\ pc = "stop_loss" =>
          /\ pc' = "signal"
          /\ AllOf(NewTrades, IsStopLossSell)
    /\ pc = "signal" =>
          /\ pc' = IF CurrentDate \in DOMAIN signals THEN "buy_loop" ELSE "rebalance"
          /\ UNCHANGED <<capital, positions, trades_today>>
    /\ pc = "buy_loop" =>
          /\ pc' \in {"buy_loop", "rebalance"}
          /\ AllOf(NewTrades, IsBuy)
    /\ pc = "rebalance" =>
          /\ pc' \in {"rebuy_loop", "valuation"}
          /\ AllOf(NewTrades, IsRebalanceSell)
          /\ (NewTrades # <<>> \/ pc' = "rebuy_loop") =>
                cfg.rebalance_weekly /\ Weekday(CurrentDate) = cfg.rebalance_day
    /\ pc = "rebuy_loop" =>
          /\ pc' \in {"rebuy_loop", "valuation"}
          /\ AllOf(NewTrades, IsBuy)
    /\ pc = "valuation" =>
          /\ pc' = "record"
          /\ UNCHANGED <<capital, positions, trades_today>>
    /\ pc = "record" =>
          /\ pc' \in {"update_high", "calc"}
          /\ Len(portfolio_history') = Len(portfolio_history) + 1
          /\ portfolio_history'[Len(portfolio_history')].date = CurrentDate
          /\ trade_history' = trade_history \o trades_today
          /\ UNCHANGED <<capital, positions, trades_today>>
    /\ pc # "record" => UNCHANGED <<portfolio_history, trade_history, idx>>
          \/ pc = "start"
    /\ pc \in AfterUpdate \cup {"update_high"} => all_dates' = all_dates

\* C1: on every date the steps run in the order high-water update, stop-loss,
\* signal execution, rebalance (only when enabled and on its weekday),
\* valuation, snapshot append; the stop-loss step sees high-water marks that
\* the date's close has already raised; and the trades of a date stand in the
\* trade history as stop-loss SELLs, signal BUYs, rebalance SELLs, rebalance
\* BUYs.
C1_FixedOrder ==
    /\ [](C1_HighRaisedBeforeStopLoss /\ C1_TradesOrdered)
    /\ [][C1_StepOrder]_vars

\* A date whose trades hold all four kinds: a stop-loss SELL, a signal BUY, a
\* rebalance SELL and a rebalance BUY, recorded in the trade history.
C1_Witness ==
    /\ pc \in {"update_high", "calc"}
    /\ \E i, j, k, l \in 1 .. Len(trade_history) :
          /\ i < j /\ j < k /\ k < l
          /\ trade_history[i].date = trade_history[l].date
          /\ IsStopLossSell(trade_history[i])
          /\ IsBuy(trade_history[j])
          /\ IsRebalanceSell(trade_history[k])
          /\ IsBuy(trade_history[l])

\* ---------------------------------------------------------------------- C2
C2_CashState ==
    /\ capital >= 0
    /\ \A k \in 1 .. Len(portfolio_history) : portfolio_history[k].cash >= 0

C2_BuyWithinCash ==
    \A k \in 1 .. Len(NewTrades) :
        IsBuy(NewTrades[k]) =>
            /\ Len(NewTrades) = 1
            /\ NewTrades[k].amount + NewTrades[k].commission <= capital
            /\ capital' >= 0

\* C2: cash is never negative, after any trade and in any snapshot, and a BUY
\* is executed only when price x shares + commission is at most the cash
\* available just before it.
C2_CashNeverNegative == []C2_CashState /\ [][C2_BuyWithinCash]_vars

\* A BUY has been executed and cash went down by its total cost.
C2_Witness ==
    /\ pc \in {"buy_loop", "rebuy_loop"}
    /\ trades_today # <<>>
    /\ IsBuy(trades_today[Len(trades_today)])
    /\ capital < cfg.initial_capital * Den
    /\ capital >= 0

\* ---------------------------------------------------------------------- C3
PositionOf(ps, code) == ps[CHOOSE k \in 1 .. Len(ps) : ps[k].code = code]

CostBasis(pos) == pos.avg_price * pos.shares * Den

\* cash + sum over the open positions of shares x average_cost
BookValue(ps, cap) ==
    cap + SumSeq([k \in 1 .. Len(ps) |-> CostBasis(ps[k])])

\* What a trade does to the book value: a BUY costs its commission, a SELL
\* brings its net proceeds in exchange for the cost basis of the position.
BookEffect(t, ps) ==
    IF IsBuy(t) THEN 0 - t.commission
    ELSE NetProceeds(t) - CostBasis(PositionOf(ps, t.code))

C3_StepConserves ==
    pc \in AfterUpdate \cup {"update_high"} =>
        BookValue(positions', capital') =
            BookValue(positions, capital)
            + SumSeq([k \in 1 .. Len(NewTrades) |->
                         BookEffect(NewTrades[k], positions)])

\* C3: capital conservation: cash + sum(shares x average_cost) changes only by
\* the trades of the date: minus the commission of each BUY, plus (net
\* proceeds - shares x average_cost) for each SELL; unchanged without trades.
C3_CapitalConservation == [][C3_StepConserves]_vars

\* ---------------------------------------------------------------------- C4
C4_StepLifecycle ==
    \A c \in Codes :
        /\ (c \in Held(positions') /\ c \notin Held(positions)) =>
              \E k \in 1 .. Len(NewTrades) :
                  IsBuy(NewTrades[k]) /\ NewTrades[k].code = c
        /\ (c \in Held(positions) /\ c \notin Held(positions')) =>
              \E k \in 1 .. Len(NewTrades) :
                  /\ IsSell(NewTrades[k])
                  /\ NewTrades[k].code = c
                  /\ NewTrades[k].date = CurrentDate

\* C4: a position enters the ledger only through a BUY and leaves it only
\* through a SELL of the same instrument dated the day it leaves, also on a
\* rebalance date on which the instrument has no bar.
C4_PositionLifecycle == [][C4_StepLifecycle]_vars

\* ---------------------------------------------------------------------- C5
C5_LedgerState == Len(positions) = Cardinality(Held(positions))

C5_BuyOnlyWhenNotHeld ==
    \A k \in 1 .. Len(NewTrades) :
        IsBuy(NewTrades[k]) =>
            /\ NewTrades[k].code \notin Held(positions)
            /\ NewTrades[k].code \in Held(positions')

\* C5: an instrument has at most one open position at any time: no BUY is
\* executed for an instrument that is in the ledger at that moment.
C5_OnePositionPerInstrument == []C5_LedgerState /\ [][C5_BuyOnlyWhenNotHeld]_vars

\* A snapshot date on which one instrument was sold and bought again.
C5_Witness ==
    /\ pc = "record"
    /\ \E i, j \in 1 .. Len(trades_today) :
          /\ i < j
          /\ IsSell(trades_today[i])
          /\ IsBuy(trades_today[j])
          /\ trades_today[i].code = trades_today[j].code
          /\ trades_today[j].code \in Held(positions)

\* ---------------------------------------------------------------------- C6
LotSized(t) == t.shares > 0 /\ t.shares % LotSize = 0

\* C6: every trade, BUY or SELL and whatever its reason, has shares > 0 and
\* shares a multiple of the lot size.
C6_LotSize ==
    /\ AllOf(trade_history, LotSized)
    /\ pc \in AfterUpdate \ {"stop_loss"} => AllOf(trades_today, LotSized)

\* The trade history holds a BUY, a stop-loss SELL and a rebalance SELL.
C6_Witness ==
    /\ \E k \in 1 .. Len(trade_history) : IsBuy(trade_history[k])
    /\ \E k \in 1 .. Len(trade_history) : IsStopLossSell(trade_history[k])
    /\ \E k \in 1 .. Len(trade_history) : IsRebalanceSell(trade_history[k])

\* ---------------------------------------------------------------------- C7
C7_HighWaterState ==
    \A k \in 1 .. Len(positions) :
        /\ positions[k].max_price >= positions[k].avg_price
        /\ (pc \in AfterUpdate /\ HasBar(positions[k].code, CurrentDate)) =>
              positions[k].max_price >= Close(positions[k].code, CurrentDate)

C7_HighWaterStep ==
    \A i \in 1 .. Len(positions) : \A j \in 1 .. Len(positions') :
        (positions[i].code = positions'[j].code
         /\ positions[i].buy_date = positions'[j].buy_date) =>
            positions'[j].max_price >= positions[i].max_price

\* C7: while a position is held its high-water price never decreases, is
\* never below its average cost, and from the update step of a date with a
\* bar on it is at least that date's close.
C7_MonotonicHighWater == []C7_HighWaterState /\ [][C7_HighWaterStep]_vars

\* A held position whose high-water price was raised above its entry price and
\* that is now above the close of the date.
C7_Witness ==
    /\ pc \in AfterUpdate
    /\ \E k \in 1 .. Len(positions) :
          /\ positions[k].max_price > positions[k].avg_price
          /\ HasBar(positions[k].code, CurrentDate)
          /\ positions[k].max_price > Close(positions[k].code, CurrentDate)

\* ---------------------------------------------------------------------- C8
AtThreshold(high, close) ==
    (high - close) * cfg.stop_loss_pct.den >= cfg.stop_loss_pct.num * high

C8_StopLossStep ==
    /\ \A k \in 1 .. Len(NewTrades) :
          IsStopLossSell(NewTrades[k]) =>
              /\ pc = "stop_loss"
              /\ NewTrades[k].date = CurrentDate
              /\ \E i \in 1 .. Len(positions) :
                    /\ positions[i].code = NewTrades[k].code
                    /\ HasBar(positions[i].code, CurrentDate)
                    /\ NewTrades[k].price = Close(positions[i].code, CurrentDate)
                    /\ AtThreshold(positions[i].max_price, NewTrades[k].price)
    /\ pc = "stop_loss" =>
          \A i \in 1 .. Len(positions) :
              (HasBar(positions[i].code, CurrentDate)
               /\ ~AtThreshold(positions[i].max_price,
                               Close(positions[i].code, CurrentDate))) =>
                  /\ positions[i] \in {positions'[j] : j \in 1 .. Len(positions')}
                  /\ \A k \in 1 .. Len(NewTrades) :
                        NewTrades[k].code # positions[i].code

\* C8: every stop-loss SELL is at the date's close and satisfies
\* (high_water_price - close) / high_water_price >= stop_loss_threshold; a
\* position whose drawdown is below the threshold gets no stop-loss SELL.
C8_StopLossTrigger == [][C8_StopLossStep]_vars

\* The stop-loss step has sold one position and kept another whose close is
\* below its high-water price by less than the threshold.
C8_Witness ==
    /\ pc = "signal"
    /\ \E k \in 1 .. Len(trades_today) : IsStopLossSell(trades_today[k])
    /\ \E i \in 1 .. Len(positions) :
          /\ HasBar(positions[i].code, CurrentDate)
          /\ positions[i].max_price > Close(positions[i].code, CurrentDate)

\* ---------------------------------------------------------------------- C9
SellsOf(ts, code) == SelectSeq(ts, LAMBDA t : IsSell(t) /\ t.code = code)

C9_StopLossStep ==
    /\ pc = "stop_loss" =>
          \A i \in 1 .. Len(positions) :
              (HasBar(positions[i].code, CurrentDate)
               /\ AtThreshold(positions[i].max_price,
                              Close(positions[i].code, CurrentDate))) =>
                  /\ Len(SellsOf(NewTrades, positions[i].code)) = 1
                  /\ SellsOf(NewTrades, positions[i].code)[1].shares
                        = positions[i].shares
                  /\ SellsOf(NewTrades, positions[i].code)[1].date = CurrentDate
                  /\ SellsOf(NewTrades, positions[i].code)[1].price
                        = Close(positions[i].code, CurrentDate)
                  /\ positions[i].code \notin Held(positions')
    /\ \A c \in Codes :
          (c \in Held(positions') /\ c \notin Held(positions)) =>
              /\ pc \in {"buy_loop", "rebuy_loop"}
              /\ \E k \in 1 .. Len(NewTrades) :
                    IsBuy(NewTrades[k]) /\ NewTrades[k].code = c

\* C9: on every date each position with a bar whose drawdown from its
\* high-water price reaches the threshold is sold whole on that date (one SELL
\* with all its shares) and is out of the ledger until a later BUY, however
\* many positions trigger on the date.
C9_StopLossComplete == [][C9_StopLossStep]_vars

\* Two positions triggered on one date and both were sold; one of them was
\* sold at its entry price (pnl = minus the two commissions), so its drawdown
\* was measured from a high-water price raised since entry.
C9_Witness ==
    /\ pc = "signal"
    /\ positions = <<>>
    /\ Len(trades_today) = 2
    /\ AllOf(trades_today, IsStopLossSell)
    /\ \E k \in 1 .. 2 : trades_today[k].pnl = 0 - 2 * trades_today[k].commission

\* --------------------------------------------------------------------- C10
\* C10: with an empty trading-date universe run_backtest fails with an
\* EmptyHorizon error before any date is simulated: no snapshot, no trade, no
\* result.
C10_EmptyHorizon ==
    (pc # "start" /\ GetAllTradingDates = <<>>) =>
        /\ error = "EmptyHorizon"
        /\ portfolio_history = <<>>
        /\ trade_history = <<>>
        /\ results = <<>>

\* --------------------------------------------------------------------- C11
\* The run has ended: run_backtest returned or raised.
Ended == pc \in {"done", "failed"}

\* C11 (Scenario D): with no date range, a signal feed whose dates all carry
\* zero instruments and an empty price store, the run ends in an EmptyHorizon
\* error, with no other error and no result.
C11_ScenarioD ==
    (/\ Ended
     /\ start_date = 0 /\ end_date = 0
     /\ DOMAIN price_data = {}
     /\ DOMAIN signals # {}
     /\ \A d \in DOMAIN signals : signals[d] = <<>>) =>
        /\ error = "EmptyHorizon"
        /\ results = <<>>

\* --------------------------------------------------------------------- C12
\* C12: a run with an invalid configuration is rejected with a
\* ConfigurationError before the day loop starts: it never leaves the start
\* except into that error, and it has no snapshot and no trade.
C12_ConfigurationError ==
    ~ValidConfig(cfg) =>
        /\ pc = "start" \/ (pc = "failed" /\ error = "ConfigurationError")
        /\ portfolio_history = <<>>
        /\ trade_history = <<>>
        /\ trades_today = <<>>

\* --------------------------------------------------------------------- C13
\* The trade of a trade list, reduced to what Scenario C speaks of.
Brief(t) == <<t.action, t.code, t.reason, t.holding_days>>

Briefs(ts) == [k \in 1 .. Len(ts) |-> Brief(ts[k])]

\* The trades of a Monday with signal s, with `held` the code held before the
\* day (or "" for none): the entry of step 3 unless s is held, the liquidation
\* of all positions, the re-entry of s.
MondayTrades(s, held, age) ==
    (IF held = s THEN <<>> ELSE <<<<"BUY", s, "signal", 0>>>>)
    \o (IF held = "" THEN <<>> ELSE <<<<"SELL", held, "rebalance", age>>>>)
    \o (IF held = s THEN <<>> ELSE <<<<"SELL", s, "rebalance", 0>>>>)
    \o <<<<"BUY", s, "signal", 0>>>>

\* C13 as stated (Scenario C): after the two weeks the position of the first
\* Monday has been liquidated on the second Monday and replaced by the second
\* Monday's signal, and the trade history holds exactly 2 SELL and 2 BUY.
C13_ScenarioC ==
    pc = "done" =>
        /\ Held(positions) = {signals[SecondMonday][1]}
        /\ Len(SelectSeq(trade_history, IsSell)) = 2
        /\ Len(SelectSeq(trade_history, IsBuy)) = 2

\* C13, amended: the entry of step 3 is liquidated and re-entered by the
\* rebalance of the same Monday.  The first Monday records BUY, SELL, BUY of
\* its signal; the second Monday records the step-3 BUY of its signal (unless
\* that instrument is the one held), the SELL of every open position and the
\* BUY of its signal.  The history holds 4 BUY and 3 SELL when the two Mondays
\* signal different instruments, 3 BUY and 2 SELL when they signal the same
\* one; the ledger ends with the second Monday's signal, entered that day.
C13_ScenarioCChurn ==
    pc = "done" =>
        LET s1 == signals[FirstMonday][1]
            s2 == signals[SecondMonday][1]
        IN  /\ Briefs(trade_history) =
                   MondayTrades(s1, "", 0) \o MondayTrades(s2, s1, 7)
            /\ Briefs(TradesOfDate(trade_history, FirstMonday)) =
                   MondayTrades(s1, "", 0)
            /\ Len(SelectSeq(trade_history, IsBuy)) = IF s1 = s2 THEN 3 ELSE 4
            /\ Len(SelectSeq(trade_history, IsSell)) = IF s1 = s2 THEN 2 ELSE 3
            /\ Held(positions) = {s2}
            /\ positions[1].buy_date = SecondMonday

\* The two Mondays signalled different instruments and the run has returned
\* with 7 trades.
C13_Witness ==
    /\ pc = "done"
    /\ signals[FirstMonday] # signals[SecondMonday]
    /\ Len(trade_history) = 7
    /\ Len(portfolio_history) = 3

\* --------------------------------------------------------------------- C14
\* The universe as the claim states it.
BarDates == {d \in Dates : \E c \in Codes : HasBar(c, d)}

Universe ==
    {d \in DOMAIN signals \cup BarDates :
        /\ start_date # 0 => start_date <= d
        /\ end_date # 0 => d <= end_date}

SnapshotDates(ph) == [k \in 1 .. Len(ph) |-> ph[k].date]

\* Dates processed so far are the least dates of the universe, one snapshot
\* each, in increasing order; after the loop they are the whole universe.
C14_SnapshotState ==
    /\ \A j, k \in 1 .. Len(portfolio_history) :
           j < k => portfolio_history[j].date < portfolio_history[k].date
    /\ \A k \in 1 .. Len(portfolio_history) :
           /\ portfolio_history[k].date \in Universe
           /\ \A d \in Universe :
                  d < portfolio_history[k].date =>
                      \E j \in 1 .. k - 1 : portfolio_history[j].date = d
    /\ pc \in {"calc", "done"} =>
           /\ {portfolio_history[k].date : k \in 1 .. Len(portfolio_history)}
                  = Universe
           /\ Len(portfolio_history) = Cardinality(Universe)

\* No step changes or removes a snapshot that is recorded.
C14_AppendOnly ==
    /\ Len(portfolio_history') >= Len(portfolio_history)
    /\ SubSeq(portfolio_history', 1, Len(portfolio_history)) = portfolio_history

\* C14: a run on a fresh engine records exactly one snapshot per date of the
\* universe (the dates of the signal feed and of every instrument's bars with
\* start_date <= d <= end_date, both inclusive), with strictly increasing
\* dates, and the history is append-only.
C14_SnapshotHistory == []C14_SnapshotState /\ [][C14_AppendOnly]_vars

\* A returned run over three dates, one of them a date of the feed on which
\* no instrument has a bar, with portfolio values that differ.
C14_Witness ==
    /\ pc = "done"
    /\ Len(portfolio_history) = 3
    /\ \E d \in DOMAIN signals : d \notin BarDates
    /\ portfolio_history[1].portfolio_value # portfolio_history[3].portfolio_value

\* --------------------------------------------------------------------- C15
\* run_backtest of one engine alone, as a function of the inputs: the loop
\* of _execute_buy_signals, one date, and the loop over the dates.
RECURSIVE BuyAll(_, _, _, _, _)
BuyAll(sigs, i, ps, cap, d) ==
    IF i > Len(sigs) THEN [positions |-> ps, capital |-> cap, trades |-> <<>>]
    ELSE LET r == BuyOne(sigs[i], Len(sigs), ps, cap, d)
             rest == BuyAll(sigs, i + 1, r.positions, r.capital, d)
         IN  [rest EXCEPT !.trades = r.trades \o rest.trades]

DayAlone(ps, cap, d) ==
    LET today == IF d \in DOMAIN signals THEN signals[d] ELSE <<>>
        r2 == CheckStopLoss(UpdatePositionsHigh(ps, d), cap, d)
        r3 == IF d \in DOMAIN signals
              THEN BuyAll(today, 1, r2.positions, r2.capital, d)
              ELSE [r2 EXCEPT !.trades = <<>>]
        sold == RebalanceSell(r3.positions, r3.capital, d)
        again == BuyAll(today, 1, sold.positions, sold.capital, d)
        r4 == IF cfg.rebalance_weekly /\ IsRebalanceDay(d) /\ r3.positions # <<>>
              THEN [again EXCEPT !.trades = sold.trades \o again.trades]
              ELSE [r3 EXCEPT !.trades = <<>>]
    IN  [positions |-> r4.positions, capital |-> r4.capital,
         trades |-> r2.trades \o r3.trades \o r4.trades,
         snapshot |-> DailyRecord(d, r4.positions, r4.capital,
                         CalculatePortfolioValue(r4.positions, r4.capital, d))]

RECURSIVE RunAlone(_, _, _, _, _)
RunAlone(k, ps, cap, ph, th) ==
    IF k > Len(GetAllTradingDates)
    THEN [portfolio_history |-> ph, trade_history |-> th]
    ELSE LET r == DayAlone(ps, cap, GetAllTradingDates[k])
         IN  RunAlone(k + 1, r.positions, r.capital,
                      Append(ph, r.snapshot), th \o r.trades)

Alone == RunAlone(1, <<>>, cfg.initial_capital * Den, <<>>, <<>>)

\* A returned run holds the histories of the run alone.
C15_SameAsAlone ==
    pc = "done" =>
        /\ portfolio_history = Alone.portfolio_history
        /\ trade_history = Alone.trade_history

\* C15: two runs on separate engine instances that share the signal feed and
\* the price store, their steps interleaved in any order, each end with the
\* snapshot and trade history of the run alone; no step changes the signal
\* feed or the price store.
C15_IndependentRuns ==
    []C15_SameAsAlone /\ [][signals' = signals /\ price_data' = price_data]_vars

\* This instance has returned while the other, with another configuration,
\* stands in the middle of its loop (at step 2 of its second date); both have
\* recorded trades.
C15_Witness ==
    /\ pc = "done"
    /\ other.pc = "stop_loss"
    /\ other.idx = 2
    /\ other.cfg # cfg
    /\ trade_history # <<>>
    /\ other.trade_history # <<>>

\* --------------------------------------------------------------------- C16
C16_CallStep ==
    pc \in {"calc", "done"} =>
        /\ portfolio_history' = portfolio_history
        /\ trade_history' = trade_history
        /\ pc = "done" => results' = results

Called == pc \in {"done", "done_again"}

RECURSIVE Peak(_, _)
Peak(ph, k) ==
    IF k = 1 THEN Value(ph, 1)
    ELSE IF Value(ph, k) > Peak(ph, k - 1) THEN Value(ph, k)
    ELSE Peak(ph, k - 1)

NonDecreasing(ph) == \A k \in 2 .. Len(ph) : Value(ph, k - 1) <= Value(ph, k)

\* C17: for a snapshot history of positive portfolio values max_drawdown_pct
\* is <= 0, is 0 when the value never decreases from one snapshot to the next,
\* and is the least over the snapshots of
\* (value - running maximum) / running maximum x 100.
C17_DrawdownSign ==
    (Called /\ portfolio_history # <<>>) =>
        LET ph == portfolio_history
            dd == results.max_drawdown_pct
        IN  /\ dd[2] > 0
            /\ dd[1] <= 0
            /\ NonDecreasing(ph) => dd[1] = 0
            /\ \A k \in 1 .. Len(ph) :
                   dd[1] * Peak(ph, k) <= (Value(ph, k) - Peak(ph, k)) * 100 * dd[2]
            /\ \E k \in 1 .. Len(ph) :
                   dd[1] * Peak(ph, k) = (Value(ph, k) - Peak(ph, k)) * 100 * dd[2]

\* Three snapshots: a fall, then a new high; the drawdown is that of the fall.
C17_Witness ==
    /\ Called
    /\ Len(portfolio_history) = 3
    /\ Value(portfolio_history, 2) < Value(portfolio_history, 1)
    /\ Value(portfolio_history, 3) > Value(portfolio_history, 1)
    /\ results.max_drawdown_pct[1] < 0

\* --------------------------------------------------------------------- C18
MetricFields ==
    {"total_return_pct", "annual_return_pct", "max_drawdown_pct",
     "sharpe_ratio", "win_rate_pct", "avg_win_pct", "avg_loss_pct",
     "total_trades", "avg_holding_days"}

ZeroVariance(ph) ==
    \A j, k \in 2 .. Len(ph) :
        Value(ph, j) * Value(ph, k - 1) = Value(ph, k) * Value(ph, j - 1)

\* The degenerate cases with at least one snapshot.
C18_WithSnapshots ==
    (Called /\ portfolio_history # <<>>) =>
        /\ error = "none"
        /\ MetricFields \subseteq DOMAIN results
        /\ trade_history = <<>> =>
               /\ results.total_trades = 0
               /\ results.win_rate_pct = Zero
               /\ results.avg_win_pct = Zero
               /\ results.avg_loss_pct = Zero
               /\ results.avg_holding_days = Zero
        /\ ZeroVariance(portfolio_history) => results.sharpe_ratio = Zero
        /\ Len(portfolio_history) = 1 => results.annual_return_pct = Zero

\* C18: a call of the metrics calculator raises nothing and leaves a result
\* with a defined value in every metric field, also with an empty snapshot
\* history; with no trades the trade count, win rate, average win, average
\* loss and holding days are 0, with zero-variance daily returns sharpe_ratio
\* is 0, and with a single date annual_return_pct is 0.
C18_DegenerateCases ==
    /\ C18_WithSnapshots
    /\ Called => (error = "none" /\ MetricFields \subseteq DOMAIN results)

\* --------------------------------------------------------------------- C19
\* The place of a state in the run: dates done, step within the date, and
\* candidates done within a buy loop.
PcRank ==
    CASE pc = "start" -> 0
      [] pc = "update_high" -> 1
      [] pc = "stop_loss" -> 2
      [] pc = "signal" -> 3
      [] pc = "buy_loop" -> 4
      [] pc = "rebalance" -> 5
      [] pc = "rebuy_loop" -> 6
      [] pc = "valuation" -> 7
      [] pc = "record" -> 8
      [] OTHER -> 9

Progress ==
    IF Ended THEN 100 * (MaxDate + 2)
    ELSE 100 * idx + 10 * PcRank
         + (IF pc \in {"buy_loop", "rebuy_loop"} THEN sig_i ELSE 0)

ResultFields ==
    {"total_return_pct", "annual_return_pct", "max_drawdown_pct",
     "sharpe_ratio", "win_rate_pct", "total_trades", "avg_holding_days"}

\* The statement at the state's position can run: inside the loop the date
\* index is in range, inside a buy loop the candidate index is, and the
\* division of step 6 has a divisor.
CanStep ==
    \/ pc \in {"start", "calc"}
    \/ /\ pc \in {"update_high", "stop_loss", "signal", "rebalance", "valuation"}
       /\ idx \in 1 .. Len(all_dates)
    \/ /\ pc \in {"buy_loop", "rebuy_loop"}
       /\ idx \in 1 .. Len(all_dates)
       /\ sig_i \in 1 .. Len(buy_signals) + 1
    \/ /\ pc = "record"
       /\ idx \in 1 .. Len(all_dates)
       /\ cfg.initial_capital # 0

\* No state short of the end is without a next step; a run over a non-empty
\* universe ends by returning; the returned run has one snapshot per date, in
\* order, and a result with every field and both histories in full.
C19_RunState ==
    /\ Ended \/ CanStep
    /\ (Ended /\ GetAllTradingDates # <<>>) => pc = "done"
    /\ pc = "done" =>
           /\ all_dates = GetAllTradingDates
           /\ SnapshotDates(portfolio_history) = all_dates
           /\ ResultFields \subseteq DOMAIN results
           /\ results.portfolio_history = portfolio_history
           /\ results.trade_history = trade_history
           /\ results.total_trades = Len(trade_history)

\* Every step moves the run forward, by at most one date.
C19_RunStep ==
    /\ Progress' > Progress
    /\ idx' \in {idx, idx + 1}

\* C19: for every non-empty universe, with rebalancing off or on, run_backtest
\* terminates (every step advances a bounded measure and no state short of the
\* end is stuck) after processing each date of the universe exactly once, and
\* returns a result holding total_return_pct, annual_return_pct,
\* max_drawdown_pct, sharpe_ratio, win_rate_pct, total_trades and
\* avg_holding_days together with the full snapshot and trade history.
C19_Terminates == []C19_RunState /\ [][C19_RunStep]_vars

\* A run with rebalancing on has returned over three dates with a rebalance
\* SELL among its trades.
C19_Witness ==
    /\ pc = "done"
    /\ cfg.rebalance_weekly
    /\ Len(all_dates) = 3
    /\ \E k \in 1 .. Len(trade_history) : IsRebalanceSell(trade_history[k])
    /\ results.total_trades = Len(trade_history)

\* --------------------------------------------------------------------- C20
\* The candidates of the list that are not held.
Remaining == {i \in 1 .. Len(buy_signals) : buy_signals[i] \notin Held(positions)}

\* No position has been opened on the current date, so the candidates not
\* held now are those not held when the signal execution began.
NoneOpenedToday ==
    \A k \in 1 .. Len(positions) : positions[k].buy_date # CurrentDate

C20_AllocationStep ==
    (/\ pc \in {"buy_loop", "rebuy_loop"}
     /\ sig_i <= Len(buy_signals)
     /\ NoneOpenedToday
     /\ buy_signals[sig_i] \notin Held(positions)
     /\ HasBar(buy_signals[sig_i], CurrentDate)) =>
        LET price == Close(buy_signals[sig_i], CurrentDate)
            n == Cardinality(Remaining)
            shares == Min(capital \div (n * price * LotSize * Den),
                          capital \div (MaxPositionDiv * price * LotSize * Den))
                      * LotSize
            funded == shares > 0 /\ price * shares * (Den + Num) <= capital
        IN  IF funded
            THEN /\ Len(NewTrades) = 1
                 /\ IsBuy(NewTrades[1])
                 /\ NewTrades[1].shares = shares
            ELSE NewTrades = <<>>

\* C20: in a signal execution the capital allocated to a candidate is
\* min(cash / n, 20% of cash), with the cash of that moment and n the number
\* of signalled instruments not already held; the candidate is bought with the
\* whole lots that allocation pays for.
C20_EntryAllocation == [][C20_AllocationStep]_vars

\* --------------------------------------------------------------------- C21
\* The allocation of a candidate is min(cash / n_signals, 20% of cash) with the
\* cash just before the BUY; shares = floor(allocation / (price x 100)) x 100
\* says that the lots bought cost at most the allocation and one lot more
\* would cost more than it.
C21_BuyStep ==
    \A k \in 1 .. Len(NewTrades) :
        IsBuy(NewTrades[k]) =>
            LET t == NewTrades[k]
                n == Len(buy_signals)
                more == t.price * (t.shares + 100) * Den
            IN  /\ pc \in {"buy_loop", "rebuy_loop"}
                /\ t.amount = t.price * t.shares * Den
                /\ 5 * t.amount <= capital
                /\ t.shares % 100 = 0
                /\ n * t.amount <= capital
                /\ n * more > capital \/ 5 * more > capital

\* C21: the gross amount (price x shares) of every BUY trade, from signal
\* execution or from rebalance re-entry, is at most 20% of the cash available
\* immediately before that BUY, and shares = floor(allocation / (price x 100))
\* x 100.
C21_ConcentrationLimit == [][C21_BuyStep]_vars

\* A rebalance re-entry has bought after a signal entry of the same date, and
\* one lot more would have passed 20% of the cash before it.
C21_Witness ==
    /\ pc = "rebuy_loop"
    /\ Len(trades_today) >= 3
    /\ IsBuy(trades_today[1])
    /\ LET t == trades_today[Len(trades_today)]
           before == capital + t.amount + t.commission
       IN  /\ IsBuy(t)
           /\ 5 * t.amount <= before
           /\ 5 * t.price * (t.shares + 100) * Den > before

\* --------------------------------------------------------------------- C22
\* The date whose steps 1 to 4 the engine has completed last (0: none yet).
DateDone ==
    IF pc \in {"valuation", "record", "calc", "done"} /\ idx \in 1 .. Len(all_dates)
    THEN all_dates[idx]
    ELSE IF pc = "update_high" /\ idx > 1 THEN all_dates[idx - 1]
    ELSE 0

RebalanceDateWithSignals(d) ==
    /\ cfg.rebalance_weekly
    /\ Weekday(d) = cfg.rebalance_day
    /\ d \in DOMAIN signals

\* At step 4 the positions with entry date = current date are those opened by
\* step 3.  Each is liquidated by a rebalance SELL before any re-entry.
C22_RebalanceStep ==
    (pc = "rebalance" /\ RebalanceDateWithSignals(CurrentDate)) =>
        /\ \A k \in 1 .. Len(positions) :
               positions[k].buy_date = CurrentDate =>
                   \E j \in 1 .. Len(NewTrades) :
                       /\ IsRebalanceSell(NewTrades[j])
                       /\ NewTrades[j].code = positions[k].code
                       /\ NewTrades[j].date = CurrentDate
                       /\ NewTrades[j].shares = positions[k].shares
                       /\ NewTrades[j].holding_days = 0
                       /\ NewTrades[j].commission > 0
                       /\ NewTrades[j].commission * Den = NewTrades[j].amount * Num
        /\ AllOf(NewTrades, IsRebalanceSell)
        /\ positions' = <<>>
        /\ capital' = capital + SumSeq(MapNet(NewTrades))
        /\ pc' = IF positions # <<>> /\ signals[CurrentDate] # <<>>
                 THEN "rebuy_loop" ELSE "valuation"
        /\ pc' = "rebuy_loop" => buy_signals' = signals[CurrentDate] /\ sig_i' = 1

C22_LedgerAfter ==
    (DateDone # 0 /\ RebalanceDateWithSignals(DateDone)) =>
        \A k \in 1 .. Len(positions) :
            /\ \E i \in 1 .. Len(signals[DateDone]) :
                   signals[DateDone][i] = positions[k].code
            /\ positions[k].buy_date = DateDone

\* C22: on a date that is a rebalance day and carries signals, every position
\* opened by signal execution (step 3) on that date is liquidated by the
\* rebalance step of the same date (a SELL with reason rebalance, holding_days
\* 0 and a commission) before the rebalance re-enters from the same signal
\* list; after the day the ledger holds only instruments of that date's
\* signal list, each with entry date = that date.
C22_RebalanceSupersedes == []C22_LedgerAfter /\ [][C22_RebalanceStep]_vars

\* A rebalance day has ended on which step 3 entered one instrument, the
\* rebalance liquidated it (holding_days 0) together with an older position,
\* and the re-entry opened two positions.
C22_Witness ==
    /\ pc = "record"
    /\ RebalanceDateWithSignals(CurrentDate)
    /\ \E i, j, k \in 1 .. Len(trades_today) :
          /\ i < j /\ j < k
          /\ IsBuy(trades_today[i])
          /\ IsRebalanceSell(trades_today[j])
          /\ trades_today[j].code = trades_today[i].code
          /\ trades_today[j].holding_days = 0
          /\ IsBuy(trades_today[k])
    /\ \E j \in 1 .. Len(trades_today) :
          IsRebalanceSell(trades_today[j]) /\ trades_today[j].holding_days > 0
    /\ Len(positions) = 2

\* --------------------------------------------------------------------- C23
NoSignals(d) == d \notin DOMAIN signals \/ signals[d] = <<>>

TradingDates == {all_dates[k] : k \in 1 .. Len(all_dates)}

\* d is, or follows, a rebalance date without signals, with no signals on
\* any trading date from that rebalance date up to d.
InCashAfter(d) ==
    /\ cfg.rebalance_weekly
    /\ \E r \in TradingDates :
          /\ r <= d
          /\ Weekday(r) = cfg.rebalance_day
          /\ \A e \in TradingDates : (r <= e /\ e <= d) => NoSignals(e)

\* C23: on a rebalance date that has no signals the ledger is empty after
\* the day, the snapshot reports 0 open positions and portfolio_value = cash,
\* and the ledger stays empty on every following date until the next date
\* with signals.
C23_RebalanceNoSignals ==
    /\ (DateDone # 0 /\ InCashAfter(DateDone)) => positions = <<>>
    /\ \A k \in 1 .. Len(portfolio_history) :
           InCashAfter(portfolio_history[k].date) =>
               /\ portfolio_history[k].positions_count = 0
               /\ portfolio_history[k].portfolio_value = portfolio_history[k].cash

\* A returned run of three dates: a position was open after the first date,
\* the second date is a rebalance date without signals on which the position
\* left the ledger, and the third date has no signals either.
C23_Witness ==
    /\ pc = "done"
    /\ Len(portfolio_history) = 3
    /\ portfolio_history[1].positions_count = 1
    /\ cfg.rebalance_weekly
    /\ Weekday(portfolio_history[2].date) = cfg.rebalance_day
    /\ NoSignals(portfolio_history[2].date)
    /\ NoSignals(portfolio_history[3].date)
    /\ portfolio_history[3].positions_count = 0
    /\ positions = <<>>

\* --------------------------------------------------------------------- C24
Gated(t) ==
    IsRebalanceSell(t) =>
        cfg.rebalance_weekly /\ Weekday(t.date) = cfg.rebalance_day

OnlyStopLossSells(ts) == AllOf(ts, LAMBDA t : IsSell(t) => IsStopLossSell(t))

\* C24: a SELL with reason rebalance is recorded only on dates whose weekday
\* equals rebalance_day and only when rebalancing is enabled; with
\* rebalancing disabled every SELL is a stop-loss SELL, and two runs on the
\* same inputs whose configurations differ in rebalance_day only return the
\* same snapshot and trade history.
C24_RebalanceGating ==
    /\ AllOf(trade_history, Gated)
    /\ pc \in AfterUpdate \ {"stop_loss"} => AllOf(trades_today, Gated)
    /\ ~cfg.rebalance_weekly =>
           /\ OnlyStopLossSells(trade_history)
           /\ pc \in AfterUpdate \ {"stop_loss"} => OnlyStopLossSells(trades_today)
    /\ (/\ ~cfg.rebalance_weekly /\ ~other.cfg.rebalance_weekly
        /\ pc = "done" /\ other.pc = "done") =>
           /\ portfolio_history = other.portfolio_history
           /\ trade_history = other.trade_history

\* Two runs with rebalancing off and different rebalance_day have returned
\* over three dates, with a BUY and a stop-loss SELL in the history.
C24_Witness ==
    /\ pc = "done" /\ other.pc = "done"
    /\ ~cfg.rebalance_weekly /\ ~other.cfg.rebalance_weekly
    /\ cfg.rebalance_day # other.cfg.rebalance_day
    /\ Len(portfolio_history) = 3
    /\ \E k \in 1 .. Len(trade_history) : IsStopLossSell(trade_history[k])

\* --------------------------------------------------------------------- C25
TradesFor(ts, code) == SelectSeq(ts, LAMBDA t : t.code = code)

C25_MissingBarStep ==
    /\ pc \in {"update_high", "stop_loss"} =>
          \A k \in 1 .. Len(positions) :
              ~HasBar(positions[k].code, CurrentDate) =>
                  /\ \E j \in 1 .. Len(positions') : positions'[j] = positions[k]
                  /\ TradesFor(NewTrades, positions[k].code) = <<>>
    /\ (/\ pc \in {"buy_loop", "rebuy_loop"}
        /\ sig_i <= Len(buy_signals)
        /\ ~HasBar(buy_signals[sig_i], CurrentDate)) =>
          /\ NewTrades = <<>>
          /\ UNCHANGED <<capital, positions, pc>>
          /\ sig_i' = sig_i + 1
    /\ pc = "record" =>
          /\ Len(portfolio_history') = Len(portfolio_history) + 1
          /\ idx < Len(all_dates) => (idx' = idx + 1 /\ pc' = "update_high")

\* Inside and after the loop over the dates no error has been raised.
C25_NotFatal == idx >= 1 => (error = "none" /\ pc # "failed")

\* C25: on a date where a held instrument has no bar, its high-water mark is
\* unchanged and the stop-loss rule does not sell it; on a date where a
\* signalled candidate has no bar, or no price series at all, no trade is
\* recorded for it, cash is unchanged by it and the candidates after it in the
\* list are still processed; the run continues to the next date.
C25_MissingBarSkipped == []C25_NotFatal /\ [][C25_MissingBarStep]_vars

\* A returned run of three dates: on the first date B, which has no price
\* series, was signalled before A and A was bought; on the second date A had
\* no bar and stayed in the ledger, valued at nothing.
C25_Witness ==
    /\ pc = "done"
    /\ Len(portfolio_history) = 3
    /\ "B" \notin DOMAIN price_data
    /\ portfolio_history[1].date \in DOMAIN signals
    /\ signals[portfolio_history[1].date] = <<"B", "A">>
    /\ portfolio_history[1].positions_count = 1
    /\ ~HasBar("A", portfolio_history[2].date)
    /\ portfolio_history[2].positions_count = 1
    /\ portfolio_history[2].portfolio_value = portfolio_history[2].cash
    /\ "A" \in Held(positions)

\* --------------------------------------------------------------------- C26
\* The candidate of the next iteration is not held and has a bar, and its
\* lot-rounded share count is 0 or its total cost exceeds the cash.
Unfunded ==
    /\ pc \in {"buy_loop", "rebuy_loop"}
    /\ sig_i <= Len(buy_signals)
    /\ buy_signals[sig_i] \notin Held(positions)
    /\ HasBar(buy_signals[sig_i], CurrentDate)
    /\ LET price == Close(buy_signals[sig_i], CurrentDate)
           n == Len(buy_signals)
           shares == Min(capital \div (n * price * 100 * Den),
                         capital \div (5 * price * 100 * Den)) * 100
       IN  shares <= 0 \/ price * shares * (Den + Num) > capital

C26_UnfundedStep ==
    Unfunded =>
        /\ NewTrades = <<>>
        /\ UNCHANGED <<capital, positions, pc>>
        /\ sig_i' = sig_i + 1

\* A BUY of a date is for an instrument of the signal list of that date.
SignalledOn(t) ==
    IsBuy(t) =>
        /\ t.date \in DOMAIN signals
        /\ \E i \in 1 .. Len(signals[t.date]) : signals[t.date][i] = t.code

C26_NoRetry ==
    /\ AllOf(trade_history, SignalledOn)
    /\ pc \in AfterUpdate \ {"stop_loss"} => AllOf(trades_today, SignalledOn)

\* C26: a candidate whose lot-rounded share count is 0 or whose total cost
\* exceeds the cash produces no trade and no position and leaves the cash and
\* the rest of the ledger unchanged; it is not retried on a later date (every
\* BUY of a date is for an instrument signalled on that date); and the loop
\* goes on to the later candidates of the same list.
C26_InsufficientCapital == []C26_NoRetry /\ [][C26_UnfundedStep]_vars

\* A returned run of three dates.  On the first date B was signalled before A
\* at a close whose total cost exceeds the cash, and A was bought; no later
\* date signalled B, B had a bar on each and was never bought; a later date
\* signalled an instrument at a cash that pays for no lot.
C26_Witness ==
    /\ pc = "done"
    /\ Len(all_dates) = 3
    /\ all_dates[1] \in DOMAIN signals
    /\ signals[all_dates[1]] = <<"B", "A">>
    /\ HasBar("B", all_dates[1])
    /\ 100 * Close("B", all_dates[1]) * (Den + Num) > cfg.initial_capital * Den
    /\ Len(trade_history) = 1
    /\ trade_history[1].code = "A"
    /\ trade_history[1].date = all_dates[1]
    /\ \A k \in 2 .. 3 : HasBar("B", all_dates[k])
    /\ \E k \in 2 .. 3 :
          /\ all_dates[k] \in DOMAIN signals
          /\ signals[all_dates[k]] = <<"A">>
    /\ portfolio_history[3].cash < 100 * BaseClose * Den

\* --------------------------------------------------------------------- C27
\* Sum of shares x close of date d over the positions that have a bar on d.
RECURSIVE PricedValue(_, _)
PricedValue(ps, d) ==
    IF ps = <<>> THEN 0
    ELSE (IF HasBar(Head(ps).code, d)
          THEN Head(ps).shares * Close(Head(ps).code, d) * Den
          ELSE 0)
         + PricedValue(Tail(ps), d)

\* C27: the portfolio_value of every snapshot is cash + the sum of shares x
\* close over the open positions that have a bar on the snapshot's date;
\* open positions without a bar add nothing to the value and are counted in
\* the snapshot's number of open positions; the snapshot's return is
\* (portfolio_value / initial_capital - 1) x 100.  Stated of the newest
\* snapshot, between its append and the next change of cash or ledger.
C27_Valuation ==
    (pc \in {"update_high", "calc", "done"} /\ portfolio_history # <<>>) =>
        LET s == portfolio_history[Len(portfolio_history)]
            initial == cfg.initial_capital * Den
        IN  /\ s.date = DateDone
            /\ s.cash = capital
            /\ s.positions_count = Len(positions)
            /\ s.portfolio_value = capital + PricedValue(positions, s.date)
            /\ s.return = <<(s.portfolio_value - initial) * 100, initial>>

\* The newest snapshot counts two open positions, one of them without a bar
\* on its date, and its value is the cash plus the value of the other one.
C27_Witness ==
    /\ pc \in {"update_high", "calc"}
    /\ portfolio_history # <<>>
    /\ LET s == portfolio_history[Len(portfolio_history)]
       IN  /\ s.positions_count = 2
           /\ \E k \in 1 .. 2 : ~HasBar(positions[k].code, s.date)
           /\ s.portfolio_value > s.cash
           /\ s.return[1] # 0

\* --------------------------------------------------------------------- C28
\* What the settlement of a trade adds to the cash.
Settlement(t) ==
    IF IsBuy(t) THEN 0 - (t.amount + t.commission)
    ELSE t.amount - t.commission

TradesUpTo(ts, d) == SelectSeq(ts, LAMBDA t : t.date <= d)

Settled(ts) == SumSeq([k \in 1 .. Len(ts) |-> Settlement(ts[k])])

\* C28: at every snapshot cash = initial_capital - the sum over all BUY trades
\* so far of (amount + commission) + the sum over all SELL trades so far of
\* (amount - commission); on a date with no trades the cash is that of the
\* snapshot before (the initial capital on the first date).
C28_CashSettlement ==
    \A k \in 1 .. Len(portfolio_history) :
        LET s == portfolio_history[k]
            before == IF k = 1 THEN cfg.initial_capital * Den
                      ELSE portfolio_history[k - 1].cash
        IN  /\ s.cash = cfg.initial_capital * Den
                        + Settled(TradesUpTo(trade_history, s.date))
            /\ TradesOfDate(trade_history, s.date) = <<>> => s.cash = before

\* Three snapshots: BUY and SELL trades up to the second, which moved the
\* cash, and no trade on the date of the third.
C28_Witness ==
    /\ Len(portfolio_history) = 3
    /\ \E k \in 1 .. Len(trade_history) : IsBuy(trade_history[k])
    /\ \E k \in 1 .. Len(trade_history) : IsSell(trade_history[k])
    /\ TradesOfDate(trade_history, portfolio_history[3].date) = <<>>
    /\ portfolio_history[1].cash # cfg.initial_capital * Den
    /\ portfolio_history[2].cash # portfolio_history[1].cash
    /\ portfolio_history[3].cash = portfolio_history[2].cash

\* --------------------------------------------------------------------- C29
\* The SELL of position p on date d, without its reason: all shares at the
\* close of d.  Money is in units of 1/Den, so amount x commission_rate is
\* price x shares x Num and average_cost x shares x (1 + commission_rate) is
\* average_cost x shares x (Den + Num).
SellOf(p, d) ==
    LET price == Close(p.code, d)
        amount == price * p.shares * Den
        commission == price * p.shares * Num
        basis == p.avg_price * p.shares * (Den + Num)
        pnl == (amount - commission) - basis
    IN  [date |-> d, code |-> p.code, action |-> "SELL", price |-> price,
         shares |-> p.shares, amount |-> amount, commission |-> commission,
         pnl |-> pnl,
         pnl_pct |-> IF basis > 0 THEN <<pnl, basis>> ELSE <<0, 1>>,
         holding_days |-> d - p.buy_date]

WithoutReason(t) == [f \in DOMAIN t \ {"reason"} |-> t[f]]

C29_SellStep ==
    /\ \A j \in 1 .. Len(NewTrades) :
          IsSell(NewTrades[j]) =>
              /\ pc \in {"stop_loss", "rebalance"}
              /\ NewTrades[j].reason =
                     IF pc = "stop_loss" THEN "stop_loss" ELSE "rebalance"
              /\ \E k \in 1 .. Len(positions) :
                     /\ positions[k].code = NewTrades[j].code
                     /\ HasBar(positions[k].code, CurrentDate)
                     /\ WithoutReason(NewTrades[j]) = SellOf(positions[k], CurrentDate)
              /\ NewTrades[j].code \notin Held(positions')
    /\ pc \in {"stop_loss", "rebalance"} =>
          capital' = capital
                     + SumSeq([j \in 1 .. Len(NewTrades) |->
                                  NewTrades[j].amount - NewTrades[j].commission])

\* C29: every SELL trade, stop-loss or rebalance, sells all shares of the
\* position at the date's close with amount = price x shares, commission =
\* amount x commission_rate, cash credited by amount - commission and pnl =
\* (amount - commission) - average_cost x shares x (1 + commission_rate);
\* both kinds of SELL are the same function of position, price and date in
\* every field but the reason.
C29_SellAccounting == [][C29_SellStep]_vars

\* The rebalance has sold a position at a gain, and the stop-loss rule has
\* sold the position of the re-entry at a loss on the next date.
C29_Witness ==
    /\ pc = "done"
    /\ \E i, j \in 1 .. Len(trade_history) :
          /\ i < j
          /\ IsRebalanceSell(trade_history[i])
          /\ trade_history[i].pnl > 0
          /\ trade_history[i].holding_days > 0
          /\ IsStopLossSell(trade_history[j])
          /\ trade_history[j].pnl < 0
          /\ trade_history[j].code = trade_history[i].code

\* --------------------------------------------------------------------- C30
\* The place of a code in a signal list (0 if it is not in the list).
PosIn(list, code) ==
    IF \E i \in 1 .. Len(list) : list[i] = code
    THEN CHOOSE i \in 1 .. Len(list) : list[i] = code
    ELSE 0

\* Trades i < j of a day's list are BUYs of one signal execution: both are
\* BUYs and no SELL stands between them.
SameExecution(ts, i, j) ==
    /\ i < j
    /\ IsBuy(ts[i]) /\ IsBuy(ts[j])
    /\ \A k \in i .. j : IsBuy(ts[k])

\* The BUYs of one execution stand in list order, and at equal price the
\* share count does not increase along them.
InListOrder(ts, list) ==
    \A i, j \in 1 .. Len(ts) :
        SameExecution(ts, i, j) =>
            /\ PosIn(list, ts[i].code) > 0
            /\ PosIn(list, ts[i].code) < PosIn(list, ts[j].code)
            /\ ts[i].price = ts[j].price => ts[i].shares >= ts[j].shares

C30_OrderState ==
    /\ \A d \in DOMAIN signals :
           InListOrder(TradesOfDate(trade_history, d), signals[d])
    /\ pc \in {"buy_loop", "rebuy_loop"} => InListOrder(trades_today, buy_signals)
    \* both candidates close at 12 and the run starts with 6100: the first of
    \* the list is bought on date 1, the second is not
    /\ (/\ pc = "done" /\ ~cfg.rebalance_weekly /\ cfg.initial_capital = 6100
        /\ 1 \in TradingDates /\ 1 \in DOMAIN signals /\ Len(signals[1]) = 2
        /\ \A c \in Codes : HasBar(c, 1) /\ Close(c, 1) = 12) =>
           Briefs(TradesOfDate(trade_history, 1)) =
               <<<<"BUY", signals[1][1], "signal", 0>>>>
    \* both close at 10 and the run starts with 10100: two lots of the first,
    \* one lot of the second
    /\ (/\ pc = "done" /\ ~cfg.rebalance_weekly /\ cfg.initial_capital = 10100
        /\ 1 \in TradingDates /\ 1 \in DOMAIN signals /\ Len(signals[1]) = 2
        /\ \A c \in Codes : HasBar(c, 1) /\ Close(c, 1) = 10) =>
           LET ts == TradesOfDate(trade_history, 1)
           IN  /\ Len(ts) = 2
               /\ ts[1].code = signals[1][1] /\ ts[1].shares = 200
               /\ ts[2].code = signals[1][2] /\ ts[2].shares = 100

\* A BUY is for the candidate at the loop's place in the list, sized from the
\* cash that the entries before it have left, and takes its total cost out of
\* that cash.
C30_EntryStep ==
    \A k \in 1 .. Len(NewTrades) :
        IsBuy(NewTrades[k]) =>
            LET t == NewTrades[k]
                n == Len(buy_signals)
            IN  /\ t.code = buy_signals[sig_i]
                /\ sig_i' = sig_i + 1
                /\ buy_signals' = buy_signals
                /\ t.shares = Min(capital \div (n * t.price * 100 * Den),
                                  capital \div (5 * t.price * 100 * Den)) * 100
                /\ capital' = capital - t.amount - t.commission

\* C30: the BUY trades of one signal execution appear in the order of the
\* signal list, and each candidate's allocation is computed from the cash
\* that remains after the entries before it in the list; at equal price the
\* share count never increases along the list, and the order of the list
\* decides which candidates are bought and with how many shares.
C30_SequentialEntries == []C30_OrderState /\ [][C30_EntryStep]_vars

\* The list <<A, B>> has been executed at equal closes with two lots bought
\* of A and one of B, and the run has returned.
C30_Witness ==
    /\ pc = "done"
    /\ signals[1] = <<"A", "B">>
    /\ ~cfg.rebalance_weekly
    /\ Len(trade_history) >= 2
    /\ trade_history[1].code = "A" /\ trade_history[1].shares = 200
    /\ trade_history[2].code = "B" /\ trade_history[2].shares = 100
    /\ trade_history[1].price = trade_history[2].price

\* --------------------------------------------------------------------- C31
Commissions(ts) == SumSeq([k \in 1 .. Len(ts) |-> ts[k].commission])

\* The feed signals one instrument once.
OneSignal ==
    /\ Cardinality(DOMAIN signals) = 1
    /\ \A d \in DOMAIN signals : Len(signals[d]) = 1

\* C31: with a bar for every instrument on every date and the same close on
\* all dates, no stop-loss SELL is ever recorded and every snapshot's
\* portfolio_value is initial_capital minus the commissions of all trades
\* recorded so far (initial_capital itself when commission_rate = 0); with
\* one signal, rebalancing off and initial_capital 1,000,000 at close 10 the
\* single BUY has 20,000 shares.
C31_FlatPrices ==
    /\ \A k \in 1 .. Len(trade_history) : ~IsStopLossSell(trade_history[k])
    /\ pc \in AfterUpdate \ {"stop_loss"} =>
           \A k \in 1 .. Len(trades_today) : ~IsStopLossSell(trades_today[k])
    /\ \A k \in 1 .. Len(portfolio_history) :
           LET s == portfolio_history[k]
           IN  /\ s.portfolio_value =
                      cfg.initial_capital * Den
                      - Commissions(TradesUpTo(trade_history, s.date))
               /\ Num = 0 => s.portfolio_value = cfg.initial_capital * Den
    /\ (/\ pc = "done" /\ OneSignal /\ ~cfg.rebalance_weekly
        /\ cfg.initial_capital = 1000000
        /\ \A d \in DOMAIN signals : Close(signals[d][1], d) = 10) =>
           /\ Len(trade_history) = 1
           /\ IsBuy(trade_history[1])
           /\ trade_history[1].shares = 20000

\* A returned run with initial_capital 1,000,000 and commission_rate 0: the
\* one signal bought 20,000 shares at 10 and the last snapshot, with the
\* position open, is worth the initial capital.
C31_Witness ==
    /\ pc = "done"
    /\ OneSignal
    /\ cfg.initial_capital = 1000000
    /\ Num = 0
    /\ Len(trade_history) = 1
    /\ trade_history[1].shares = 20000
    /\ trade_history[1].price = 10
    /\ Len(portfolio_history) = 3
    /\ portfolio_history[3].positions_count = 1
    /\ portfolio_history[3].cash = 800000
    /\ portfolio_history[3].portfolio_value = 1000000

\* --------------------------------------------------------------------- C32
\* Places of the trade history that hold a SELL, a winner, a loser, a BUY.
SellPlaces == {k \in 1 .. Len(trade_history) : trade_history[k].action = "SELL"}
Winners == {k \in SellPlaces : trade_history[k].pnl > 0}
Losers == {k \in SellPlaces : trade_history[k].pnl <= 0}
BuyPlaces == {k \in 1 .. Len(trade_history) : trade_history[k].action = "BUY"}

\* The statistics that speak of trades.
TradeStatistics(r) ==
    <<r.win_rate_pct, r.avg_win_pct, r.avg_loss_pct, r.avg_holding_days>>

\* C32: winners (pnl > 0) and losers (pnl <= 0, a break-even SELL included)
\* partition the SELL trades; win_rate_pct = winners / SELL count x 100 lies
\* in [0, 100] and is 0 without a SELL; average win, average loss and average
\* holding days are taken over winners, losers and SELLs; the BUY trades change
\* none of these (the statistics of the history are those of its SELLs
\* alone); and total_trades = number of BUYs + number of SELLs.
C32_TradeStatistics ==
    (Called /\ portfolio_history # <<>>) =>
        LET sells == SelectSeq(trade_history, IsSell)
            alone == CalculateResults(portfolio_history, sells, all_dates)
            n == Cardinality(SellPlaces)
            w == Cardinality(Winners)
        IN  /\ Winners \cup Losers = SellPlaces
            /\ Winners \cap Losers = {}
            /\ results.win_rate_pct = IF n > 0 THEN <<w * 100, n>> ELSE Zero
            /\ 0 <= results.win_rate_pct[1]
            /\ results.win_rate_pct[1] <= 100 * results.win_rate_pct[2]
            /\ results.avg_win_pct =
                   IF w > 0
                   THEN <<"mean", PnlPcts(SelectSeq(sells, LAMBDA t : t.pnl > 0)), w>>
                   ELSE Zero
            /\ results.avg_loss_pct =
                   IF n - w > 0
                   THEN <<"mean", PnlPcts(SelectSeq(sells, LAMBDA t : t.pnl <= 0)),
                          n - w>>
                   ELSE Zero
            /\ results.avg_holding_days =
                   IF n > 0 THEN <<SumSeq(HoldingDays(sells)), n>> ELSE Zero
            /\ TradeStatistics(results) = TradeStatistics(alone)
            /\ results.total_trades = Cardinality(BuyPlaces) + n
            /\ results.total_trades = Len(trade_history)

\* The calculator has returned on a history of a BUY, a winning SELL and a
\* break-even SELL: the win rate is one half and the break-even SELL is the
\* one loss.
C32_Witness ==
    /\ Called
    /\ portfolio_history # <<>>
    /\ Cardinality(BuyPlaces) = 1
    /\ Cardinality(Winners) = 1
    /\ \E k \in Losers : trade_history[k].pnl = 0
    /\ results.win_rate_pct = <<100, 2>>
    /\ results.avg_loss_pct # Zero
    /\ results.total_trades = 3

\* --------------------------------------------------------------------- C33
\* The second call on the instance has returned.
SecondReturned == pc = "done" /\ other # NoEngine

\* What the second call leaves behind: every snapshot and every trade of the
\* first call, followed by those of the second, which are the same again, and
\* the cash, ledger and value of the first call.
C33_SecondRunAppends ==
    SecondReturned =>
        /\ portfolio_history = other.portfolio_history \o other.portfolio_history
        /\ trade_history = other.trade_history \o other.trade_history
        /\ Len(portfolio_history) = 2 * Len(all_dates)
        /\ capital = other.capital
        /\ positions = other.positions
        /\ portfolio_value = other.portfolio_value
        /\ results.final_value = other.results.final_value
        /\ results.total_trades = 2 * other.results.total_trades

\* C33: a second call of run_backtest on the same engine with the same inputs
\* returns the result of the first call (that of a fresh engine), the snapshot
\* history holds one entry per date and the trade history holds the trades of
\* the second run only.
C33_RunsIndependent ==
    SecondReturned =>
        /\ results = other.results
        /\ Len(portfolio_history) = Len(all_dates)
        /\ trade_history = other.trade_history

\* The second call has returned after a first call that traded.
C33_SecondRunTraded ==
    /\ SecondReturned
    /\ other.trade_history # <<>>
    /\ Len(trade_history) = 2 * Len(other.trade_history)
    /\ results # other.results

\* --------------------------------------------------------------------- C34
\* The sum of the realized P&L of the SELL trades of a list.
RealizedPnl(ts) ==
    LET sells == SelectSeq(ts, IsSell)
    IN  SumSeq([k \in 1 .. Len(sells) |-> sells[k].pnl])

\* The place of the BUY that opened the position the SELL at place j closes:
\* the last BUY of the same instrument before it (0 if there is none).
EntryOf(ts, j) ==
    LET before == {i \in 1 .. j - 1 : IsBuy(ts[i]) /\ ts[i].code = ts[j].code}
    IN  IF before = {} THEN 0
        ELSE CHOOSE i \in before : \A i2 \in before : i2 <= i

\* C34: with rebalancing disabled, at every snapshot where the ledger is empty
\* cash - initial_capital is the sum of pnl over the SELL trades recorded so
\* far; the total cost of each BUY (amount + commission) is the cost basis
\* plus entry commission that the SELL closing it subtracts from its net
\* proceeds.
C34_RealizedPnl ==
    ~cfg.rebalance_weekly =>
        /\ \A k \in 1 .. Len(portfolio_history) :
               LET s == portfolio_history[k]
               IN  s.positions_count = 0 =>
                       s.cash - cfg.initial_capital * Den
                           = RealizedPnl(TradesUpTo(trade_history, s.date))
        /\ \A j \in 1 .. Len(trade_history) :
               IsSell(trade_history[j]) =>
                   LET i == EntryOf(trade_history, j)
                   IN  /\ i # 0
                       /\ trade_history[i].shares = trade_history[j].shares
                       /\ trade_history[i].amount + trade_history[i].commission
                              = NetProceeds(trade_history[j])
                                    - trade_history[j].pnl

\* Rebalancing is off and a snapshot with an empty ledger follows two SELL
\* trades: the cash has moved by their realized P&L.
C34_Witness ==
    /\ ~cfg.rebalance_weekly
    /\ \E k \in 1 .. Len(portfolio_history) :
           LET s == portfolio_history[k]
               ts == TradesUpTo(trade_history, s.date)
           IN  /\ s.positions_count = 0
               /\ Len(SelectSeq(ts, IsSell)) = 2
               /\ s.cash # cfg.initial_capital * Den
               /\ s.cash - cfg.initial_capital * Den = RealizedPnl(ts)

\* --------------------------------------------------------------------- C35
\* The date a SELL trade's position was opened.
EntryDate(t) == t.date - t.holding_days

\* Where the stop-loss rule is about to run, every position of the ledger was
\* opened on an earlier date; every stop-loss SELL has holding_days >= 1; a
\* SELL that closes a position on its entry date is a rebalance SELL.
C35_OpenedEarlier ==
    /\ pc \in {"update_high", "stop_loss"} =>
           \A k \in 1 .. Len(positions) : positions[k].buy_date < CurrentDate
    /\ \A t \in {trade_history[k] : k \in 1 .. Len(trade_history)}
                \cup {trades_today[k] : k \in 1 .. Len(trades_today)} :
           /\ IsStopLossSell(t) => t.holding_days >= 1 /\ EntryDate(t) < t.date
           /\ (IsSell(t) /\ t.holding_days = 0) => IsRebalanceSell(t)

\* The stop-loss step evaluates every position that has a bar, those opened
\* on the trading date before included: it is sold if the rule triggers and
\* is kept if not or if it has no bar.
C35_StopLossStep ==
    (pc = "stop_loss" /\ pc' = "signal") =>
        \A k \in 1 .. Len(positions) :
            LET p == positions[k]
            IN  IF HasBar(p.code, CurrentDate) /\ StopLossTriggered(p, CurrentDate)
                THEN /\ p.code \notin Held(positions')
                     /\ \E j \in 1 .. Len(trades_today') :
                            /\ trades_today'[j] = SellTrade(p, CurrentDate, "stop_loss")
                            /\ trades_today'[j].holding_days
                                   = CurrentDate - p.buy_date
                            /\ trades_today'[j].holding_days >= 1
                ELSE \E j \in 1 .. Len(positions') : positions'[j] = p

\* C35: a position opened on date d is not evaluated by the stop-loss rule on
\* d; its first evaluation is on the next date with a bar, so every stop-loss
\* SELL has holding_days >= 1 and closes a position opened on an earlier date,
\* and only a rebalance SELL closes a position on its entry date.
C35_StopLossAfterEntry == []C35_OpenedEarlier /\ [][C35_StopLossStep]_vars

\* A run with a stop-loss SELL of a position opened on the trading date
\* before (its first evaluation) and a rebalance SELL on the entry date.
C35_Witness ==
    /\ pc = "done"
    /\ \E i, j \in 1 .. Len(trade_history) :
           /\ IsStopLossSell(trade_history[i])
           /\ \E k \in 1 .. Len(all_dates) - 1 :
                  /\ all_dates[k] = EntryDate(trade_history[i])
                  /\ all_dates[k + 1] = trade_history[i].date
           /\ IsRebalanceSell(trade_history[j])
           /\ trade_history[j].holding_days = 0

\* --------------------------------------------------------------------- C36
\* The stop-loss step of the current date has sold the instrument.
StoppedToday(code) ==
    \E j \in 1 .. Len(trades_today) :
        /\ IsStopLossSell(trades_today[j])
        /\ trades_today[j].code = code
        /\ trades_today[j].date = CurrentDate

\* The turn of step 3 has come to a candidate that was stopped out today and
\* has a bar.
ReentryTurn ==
    /\ pc = "buy_loop"
    /\ sig_i <= Len(buy_signals)
    /\ StoppedToday(buy_signals[sig_i])
    /\ HasBar(buy_signals[sig_i], CurrentDate)

\* The cash pays for one lot of the candidate, commission included.
CashForOneLot ==
    capital >= Close(buy_signals[sig_i], CurrentDate) * LotSize * (Den + Num)

\* The allocation min(cash / n, cash / 5) pays for one lot of the candidate
\* and the cash pays for the shares allocated, commission included.
AllocationForOneLot ==
    LET price == Close(buy_signals[sig_i], CurrentDate)
        n == Len(buy_signals)
    IN  /\ capital >= n * price * LotSize * Den
        /\ capital >= MaxPositionDiv * price * LotSize * Den
        /\ capital >= price * BuyShares(capital, n, price) * (Den + Num)

\* The turn records a BUY of the candidate after its stop-loss SELL, at the
\* close the SELL was made at, opens the position with that close as cost and
\* high, and both trades carry the commission on their amount.
ReentryMade ==
    LET code == buy_signals[sig_i]
        price == Close(code, CurrentDate)
    IN  /\ Len(trades_today') = Len(trades_today) + 1
        /\ SubSeq(trades_today', 1, Len(trades_today)) = trades_today
        /\ LET b == trades_today'[Len(trades_today')]
           IN  /\ IsBuy(b) /\ b.code = code /\ b.date = CurrentDate
               /\ b.price = price
               /\ b.shares > 0
               /\ b.commission * Den = b.amount * Num
               /\ capital' = capital - b.amount - b.commission
               /\ \E j \in 1 .. Len(trades_today) :
                      /\ IsStopLossSell(trades_today[j])
                      /\ trades_today[j].code = code
                      /\ trades_today[j].price = price
                      /\ trades_today[j].commission * Den
                             = trades_today[j].amount * Num
        /\ \E k \in 1 .. Len(positions') :
               /\ positions'[k].code = code
               /\ positions'[k].max_price = price
               /\ positions'[k].avg_price = price
               /\ positions'[k].buy_date = CurrentDate

C36_LotStep == (ReentryTurn /\ CashForOneLot /\ sig_i' # sig_i) => ReentryMade

C36_AllocationStep ==
    /\ (ReentryTurn /\ AllocationForOneLot /\ sig_i' # sig_i) => ReentryMade
    /\ (ReentryTurn /\ ~AllocationForOneLot /\ sig_i' # sig_i) =>
           UNCHANGED <<positions, capital, trades_today>>

\* The instrument re-entered after its stop-loss SELL is open with the close
\* of the date as its high when the snapshot is taken.
C36_OpenAtSnapshot ==
    pc = "record" =>
        \A i, j \in 1 .. Len(trades_today) :
            (/\ i < j
             /\ IsStopLossSell(trades_today[i])
             /\ IsBuy(trades_today[j])
             /\ trades_today[j].code = trades_today[i].code) =>
                \E k \in 1 .. Len(positions) :
                    /\ positions[k].code = trades_today[i].code
                    /\ positions[k].max_price = Close(positions[k].code, CurrentDate)
                    /\ positions[k].buy_date = CurrentDate

TradesSoFar ==
    IF pc \in AfterUpdate \ {"stop_loss"} THEN trade_history \o trades_today
    ELSE trade_history

\* A BUY is for an instrument of the signal list of its date that has a bar
\* on that date, at the close of that date.
ExecutedOnItsDate(t) ==
    IsBuy(t) =>
        /\ SignalledOn(t)
        /\ HasBar(t.code, t.date)
        /\ t.price = Close(t.code, t.date)
        /\ t.pnl = 0

\* A position of the ledger was created by a BUY of its entry date, with the
\* close of that date as its cost, and on the entry date as its high.
CreatedByBuy(p) ==
    /\ HasBar(p.code, p.buy_date)
    /\ p.avg_price = Close(p.code, p.buy_date)
    /\ p.buy_date = CurrentDate => p.max_price = p.avg_price
    /\ \E k \in 1 .. Len(TradesSoFar) :
           /\ IsBuy(TradesSoFar[k])
           /\ TradesSoFar[k].code = p.code
           /\ TradesSoFar[k].date = p.buy_date
           /\ TradesSoFar[k].shares = p.shares
           /\ TradesSoFar[k].price = p.avg_price

\* A signal of a date that is over without a BUY of its instrument on that
\* date: every later BUY of the instrument is for a signal of its own date.
NeverCarriedOver ==
    \A k \in 1 .. Len(portfolio_history) :
        LET d == portfolio_history[k].date
        IN  d \in DOMAIN signals =>
                \A i \in 1 .. Len(signals[d]) :
                    LET c == signals[d][i]
                    IN  (\A t \in {trade_history[j] : j \in 1 .. Len(trade_history)} :
                             ~(IsBuy(t) /\ t.code = c /\ t.date = d)) =>
                        \A t \in {trade_history[j] : j \in 1 .. Len(trade_history)} :
                            (IsBuy(t) /\ t.code = c /\ t.date > d) =>
                                /\ t.date \in DOMAIN signals
                                /\ \E m \in 1 .. Len(signals[t.date]) :
                                       signals[t.date][m] = c

\* A snapshot with no BUY up to its date has the initial capital as cash and
\* as value, and no position.
UntouchedBeforeFirstBuy ==
    \A k \in 1 .. Len(portfolio_history) :
        LET s == portfolio_history[k]
        IN  SelectSeq(TradesUpTo(trade_history, s.date), IsBuy) = <<>> =>
                /\ s.cash = cfg.initial_capital * Den
                /\ s.portfolio_value = cfg.initial_capital * Den
                /\ s.positions_count = 0

\* C37: every BUY trade dated d is for an instrument in d's signal list that
\* has a bar on d, is priced at d's close, and creates a position with
\* average_cost = high_water_price = d's close and entry_date = d; a signal
\* that was not executed on its date produces no BUY on a later date; and
\* before the first BUY every snapshot has cash = portfolio_value =
\* initial_capital and 0 positions.
C37_SignalsOnTheirDate ==
    /\ AllOf(TradesSoFar, ExecutedOnItsDate)
    /\ pc \notin {"start", "failed"} => AllOf(positions, CreatedByBuy)
    /\ NeverCarriedOver
    /\ UntouchedBeforeFirstBuy

\* A returned run: the instrument signalled on the first date had no bar and
\* was not bought, on that date or on the next, where it had a bar and was
\* not signalled; the first two snapshots precede the first BUY, which a
\* later date made.
C37_Witness ==
    /\ pc = "done"
    /\ Len(all_dates) = 3
    /\ all_dates[1] \in DOMAIN signals
    /\ all_dates[2] \notin DOMAIN signals
    /\ \E i \in 1 .. Len(signals[all_dates[1]]) :
           LET c == signals[all_dates[1]][i]
           IN  /\ ~HasBar(c, all_dates[1])
               /\ HasBar(c, all_dates[2])
               /\ \A j \in 1 .. Len(trade_history) :
                      trade_history[j].code = c => trade_history[j].date = all_dates[3]
    /\ \E j \in 1 .. Len(trade_history) : IsBuy(trade_history[j])
    /\ portfolio_history[2].cash = cfg.initial_capital * Den
    /\ portfolio_history[2].positions_count = 0
    /\ portfolio_history[3].positions_count > 0
====
